---------------------------- MODULE Spec2Model ----------------------------
(***************************************************************************)
(* Model of the CNA-GURU request-guard pipeline and response reduction.    *)
(*                                                                         *)
(* Python values are tagged records [t, v]: t is the Python type, v the    *)
(* content as a sequence (a str is the sequence of its characters).        *)
(* A call's effect on the process is threaded through a world record w     *)
(* (clock reading, rate-limit maps, log, calls to the agent); a call's     *)
(* result is an outcome record: the world after it, and either the value   *)
(* returned or the exception raised.                                       *)
(***************************************************************************)
EXTENDS Integers, Sequences, FiniteSets, TLC

(***************************************************************************)
(* Bounds of the model.  The decorators are applied with 60 calls per 60   *)
(* seconds, inputs are limited to 1000 characters and sessions time out    *)
(* after 3600 seconds; the model keeps the comparisons and scales the      *)
(* numbers down.                                                           *)
(***************************************************************************)
MaxTime == 4

MaxCalls == 2

TimeWindow == 2

Time == 0..MaxTime

VARIABLES
    now,              \* the clock, as read by datetime.now()
    debug,            \* whether the DEBUG environment variable is set
    call_history,     \* index.py rate_limit: caller id -> call times
    mw_call_history,  \* middleware.py rate_limit: caller id -> call times
    admitted,         \* history: every admission, per limiter and caller
    rl_last,          \* the last call made to a rate-limit wrapper
    pc,               \* SpecConc: each thread's place in the wrapper
    t_time,           \* SpecConc: each thread's current_time
    t_calls,          \* SpecConc: each thread's list comprehension result
    session_storage,  \* st.session_state.session_storage: id -> record
    sess_last,        \* the last call made to the SessionManager
    sess_calls,       \* history: the last two calls made for each session id
    removed_at,       \* history: when each id's record was last removed
    last,             \* what the last request to lambda_handler did
    stream,           \* SpecReducer: the events of a completion stream
    reduced,          \* SpecReducer: what get_agent_response made of it
    sql_text,         \* SpecQuery: a query text
    sql_checked,      \* SpecQuery: what validate_sql_query said of it
    source_list,      \* SpecResolver: a list of sources
    resolved,         \* SpecResolver: what source_link made of it
    raw_input,        \* SpecSanitizer: a user input
    sanitized,        \* SpecSanitizer: what the validation stages made of it
    trace_text,       \* SpecExtract: the text output of an action group
    extracted,        \* SpecExtract: what extract_sql_query made of it
    action_event,     \* SpecAction: an event for the action Lambda
    action_response,  \* SpecAction: what its lambda_handler returned
    audit_call,       \* SpecAudit: the arguments of an audited call
    audit_entries     \* SpecAudit: what the audit wrapper logged for it

vars ==
    <<now, debug, call_history, mw_call_history, admitted, rl_last,
      pc, t_time, t_calls, session_storage, sess_last, sess_calls,
      removed_at, last, stream, reduced, sql_text, sql_checked, source_list,
      resolved, raw_input, sanitized, trace_text, extracted, action_event,
      action_response, audit_call, audit_entries>>

reducerVars == <<stream, reduced>>

queryVars == <<sql_text, sql_checked>>

resolverVars == <<source_list, resolved>>

sanitizerVars == <<raw_input, sanitized>>

extractVars == <<trace_text, extracted>>

actionVars == <<action_event, action_response>>

auditVars == <<audit_call, audit_entries>>

pureVars ==
    <<reducerVars, queryVars, resolverVars, sanitizerVars, extractVars,
      actionVars, auditVars>>

sessVars == <<session_storage, sess_last, sess_calls, removed_at>>

rlVars == <<admitted, rl_last>>

concVars == <<pc, t_time, t_calls>>

(* what the specifications of single functions leave alone *)
restVars ==
    <<last, now, debug, call_history, mw_call_history, rlVars, concVars,
      sessVars>>

(***************************************************************************)
(* Python values.                                                          *)
(***************************************************************************)
PyNone == [t |-> "none", v |-> <<>>]

PyStr(s) == [t |-> "str", v |-> s]

PyInt(digits) == [t |-> "int", v |-> digits]

DEFAULT_CALLER == PyStr(<<"default">>)

NoKwargs == <<>>

SessionKwargs(session_id) == [session_id |-> session_id]

(***************************************************************************)
(* Outcomes of a call.                                                     *)
(***************************************************************************)
Return(w, value) ==
    [w |-> w, raised |-> FALSE, exc |-> "", msg |-> "", value |-> value]

Raise(w, exc, msg) ==
    [w |-> w, raised |-> TRUE, exc |-> exc, msg |-> msg, value |-> PyNone]

(* the member of a singleton set: Only({e : x \in {d}}) is e with x bound  *)
(* to the value of d, computed once                                        *)
Only(S) == CHOOSE x \in S : TRUE

(***************************************************************************)
(* rate_limit(max_calls, time_window): the wrapper, up to its call of the  *)
(* wrapped function: it raises, or returns for the caller to go on with    *)
(* func in the world it leaves.  The caller id is the keyword argument     *)
(* session_id, "default" without it.                                       *)
(***************************************************************************)
CallerId(kwargs) ==
    IF "session_id" \in DOMAIN kwargs THEN kwargs.session_id ELSE DEFAULT_CALLER

WithCaller(history, caller_id) ==
    IF caller_id \in DOMAIN history
    THEN history
    ELSE history @@ (caller_id :> <<>>)

PruneTooEarly(calls, current_time) ==
    SelectSeq(calls, LAMBDA call_time : current_time - call_time < TimeWindow - 1)

Prune(calls, current_time) ==
    SelectSeq(calls, LAMBDA call_time : current_time - call_time < TimeWindow)

LimitReachedOffByOne(calls) == Len(calls) > MaxCalls

LimitReached(calls) == Len(calls) >= MaxCalls

(* the call recorded before the check, so that a denied call counts too *)
rate_limit_counting_denied(kwargs, w) ==
    LET caller_id == CallerId(kwargs)
        h0 == WithCaller(w.call_history, caller_id)
        current_time == w.now
        h1 == [h0 EXCEPT ![caller_id] = Prune(h0[caller_id], current_time)]
        h2 == [h1 EXCEPT ![caller_id] = Append(@, current_time)]
    IN  IF LimitReached(h1[caller_id])
        THEN Raise([w EXCEPT !.call_history = h2], "Exception",
                   "Rate limit exceeded")
        ELSE Return([w EXCEPT !.call_history = h2], PyNone)

rate_limit(kwargs, w) ==
    LET caller_id == CallerId(kwargs)
        h0 == WithCaller(w.call_history, caller_id)
        current_time == w.now
        h1 == [h0 EXCEPT ![caller_id] = Prune(h0[caller_id], current_time)]
    IN  IF LimitReached(h1[caller_id])
        THEN Raise([w EXCEPT !.call_history = h1], "Exception",
                   "Rate limit exceeded")
        ELSE Return([w EXCEPT !.call_history =
                        [h1 EXCEPT ![caller_id] = Append(@, current_time)]],
                    PyNone)

(* The same wrapper in middleware.py, over its own call_history.          *)
mw_rate_limit(kwargs, w) ==
    LET caller_id == CallerId(kwargs)
        h0 == WithCaller(w.mw_call_history, caller_id)
        current_time == w.now
        h1 == [h0 EXCEPT ![caller_id] = Prune(h0[caller_id], current_time)]
    IN  IF LimitReached(h1[caller_id])
        THEN Raise([w EXCEPT !.mw_call_history = h1], "Exception",
                   "Rate limit exceeded")
        ELSE Return([w EXCEPT !.mw_call_history =
                        [h1 EXCEPT ![caller_id] = Append(@, current_time)]],
                    PyNone)

(***************************************************************************)
(* The world a call starts in, read from the state.                        *)
(***************************************************************************)
World ==
    [now |-> now, debug |-> debug, call_history |-> call_history,
     mw_call_history |-> mw_call_history, log |-> <<>>, ran |-> <<>>,
     agent |-> <<>>]

Ran(w, name) == [w EXCEPT !.ran = Append(@, name)]

(***************************************************************************)
(* The clock: datetime.now(), non-decreasing.                              *)
(***************************************************************************)
Tick ==
    /\ now < MaxTime
    /\ now' = now + 1
    /\ UNCHANGED <<pureVars, last, debug, call_history, mw_call_history, rlVars, concVars, sessVars>>

(***************************************************************************)
(* SpecRL: a rate-limit wrapper called for arbitrary callers, around a     *)
(* function that only records that it ran.  The two wrappers live in       *)
(* different processes (the Lambda and the Streamlit app): a behaviour of  *)
(* SpecRL is one process, so it exercises one of them.                     *)
(***************************************************************************)
SessionIds == {PyStr(<<"s1">>), PyStr(<<"s2">>)}

RLKwargs == {NoKwargs, SessionKwargs(PyStr(<<"s1">>))}

Callers == {DEFAULT_CALLER} \cup SessionIds

Limiters == {"index", "middleware"}

WrappedFunc(w) == Return(Ran(w, "func"), PyNone)

HistoryOf(limiter) ==
    IF limiter = "index" THEN call_history ELSE mw_call_history

RecordAdmission(limiter, caller_id, r) ==
    IF r.raised THEN admitted
    ELSE [admitted EXCEPT ![limiter][caller_id] = Append(@, now)]

RLRecord(limiter, kwargs, r) ==
    [limiter |-> limiter, caller |-> CallerId(kwargs), at |-> now,
     admitted |-> ~r.raised, ran |-> r.w.ran, msg |-> r.msg,
     after_denial |-> /\ rl_last.limiter = limiter
                      /\ rl_last.caller = CallerId(kwargs)
                      /\ ~rl_last.admitted]

RateLimitedCall(kwargs) ==
    LET a == rate_limit(kwargs, World)
        r == IF a.raised THEN a ELSE WrappedFunc(a.w)
    IN  /\ mw_call_history = <<>>
        /\ call_history' = r.w.call_history
        /\ admitted' = RecordAdmission("index", CallerId(kwargs), r)
        /\ rl_last' = RLRecord("index", kwargs, r)
        /\ UNCHANGED <<pureVars, last, now, debug, mw_call_history, concVars, sessVars>>

MwRateLimitedCall(kwargs) ==
    LET a == mw_rate_limit(kwargs, World)
        r == IF a.raised THEN a ELSE WrappedFunc(a.w)
    IN  /\ call_history = <<>>
        /\ mw_call_history' = r.w.mw_call_history
        /\ admitted' = RecordAdmission("middleware", CallerId(kwargs), r)
        /\ rl_last' = RLRecord("middleware", kwargs, r)
        /\ UNCHANGED <<pureVars, last, now, debug, call_history, concVars, sessVars>>

NoRLCall ==
    [limiter |-> "none", caller |-> DEFAULT_CALLER, at |-> 0,
     admitted |-> FALSE, ran |-> <<>>, msg |-> "", after_denial |-> FALSE]

Threads == {1, 2}

NoSessionCall == [op |-> "none", id |-> PyNone, at |-> 0, result |-> FALSE]

NoCall == [op |-> "none", at |-> 0, result |-> FALSE]

(* a function not yet applied to its input *)
NotDone == [done |-> FALSE]

(* a call without arguments *)
NoArguments == [args |-> <<>>, kwargs |-> <<>>]

(* no event given yet *)
NoEvent == [t |-> "none", v |-> <<>>]

NoCalls == [prev |-> NoCall, latest |-> NoCall]

NoRequest ==
    [op |-> "none", raised |-> FALSE, result |-> PyNone, ran |-> <<>>,
     agent |-> <<>>, trimmed |-> FALSE]

(* the state after construction, but for the environment variable DEBUG *)
Constructed ==
    /\ session_storage = <<>>
    /\ sess_last = NoSessionCall
    /\ sess_calls = [id \in SessionIds |-> NoCalls]
    /\ removed_at = <<>>
    /\ pc = [t \in Threads |-> "idle"]
    /\ t_time = [t \in Threads |-> 0]
    /\ t_calls = [t \in Threads |-> <<>>]
    /\ now = 0
    /\ call_history = <<>>
    /\ mw_call_history = <<>>
    /\ admitted = [l \in Limiters |-> [c \in Callers |-> <<>>]]
    /\ rl_last = NoRLCall
    /\ last = NoRequest
    /\ stream = <<>>
    /\ reduced = NotDone
    /\ sql_text = <<>>
    /\ sql_checked = NotDone
    /\ source_list = <<>>
    /\ resolved = NotDone
    /\ raw_input = PyStr(<<>>)
    /\ sanitized = NotDone
    /\ trace_text = <<>>
    /\ extracted = NotDone
    /\ action_event = NoEvent
    /\ action_response = NotDone
    /\ audit_call = NoArguments
    /\ audit_entries = NotDone

(* DEBUG is not set *)
Init == debug = FALSE /\ Constructed

NextRL ==
    \/ Tick
    \/ \E kwargs \in RLKwargs : RateLimitedCall(kwargs)
    \/ \E kwargs \in RLKwargs : MwRateLimitedCall(kwargs)

SpecRL == Init /\ [][NextRL]_vars

(***************************************************************************)
(* Claims about the rate limiter, under SpecRL.                            *)
(***************************************************************************)
Window(history, c) == IF c \in DOMAIN history THEN history[c] ELSE <<>>

LiveCalls(calls, t) == {i \in DOMAIN calls : t - calls[i] < TimeWindow}

LiveWindow(calls, t) ==
    SelectSeq(calls, LAMBDA call_time : call_time > t - TimeWindow)

(* C1: a call at time now for caller c is admitted iff fewer than MaxCalls  *)
(* of c's recorded timestamps t have now - t < TimeWindow; an admitted     *)
(* call leaves c's window as the live timestamps followed by now and runs  *)
(* the wrapped function; a denied call leaves only the live timestamps,    *)
(* raises "Rate limit exceeded" and does not run the wrapped function.     *)
C1_AdmissionStep ==
    [][now' = now =>
        LET c == rl_last'.caller
            before == Window(HistoryOf(rl_last'.limiter), c)
            after == Window(IF rl_last'.limiter = "index"
                            THEN call_history' ELSE mw_call_history', c)
            live == LiveWindow(before, now)
        IN  /\ rl_last'.admitted <=>
                    Cardinality(LiveCalls(before, now)) < MaxCalls
            /\ rl_last'.admitted =>
                    /\ after = Append(live, now)
                    /\ rl_last'.ran = <<"func">>
            /\ ~rl_last'.admitted =>
                    /\ after = live
                    /\ rl_last'.ran = <<>>
                    /\ rl_last'.msg = "Rate limit exceeded"]_vars

(* C1 witness: a call was denied with the caller's window full, after     *)
(* admitted calls of the same caller.                                      *)
C1_Witness ==
    /\ rl_last.limiter # "none"
    /\ ~rl_last.admitted
    /\ Len(admitted[rl_last.limiter][rl_last.caller]) >= MaxCalls
    /\ Len(Window(HistoryOf(rl_last.limiter), rl_last.caller)) = MaxCalls

AdmittedIn(l, c, a) ==
    {i \in DOMAIN admitted[l][c] :
        a <= admitted[l][c][i] /\ admitted[l][c][i] < a + TimeWindow}

(* C2: under the non-decreasing clock every caller's recorded window holds *)
(* at most MaxCalls timestamps, and at most MaxCalls admitted calls of a   *)
(* caller fall in any time interval shorter than TimeWindow.               *)
C2_SlidingWindow ==
    \A l \in Limiters, c \in Callers :
        /\ Len(Window(HistoryOf(l), c)) <= MaxCalls
        /\ \A a \in Time : Cardinality(AdmittedIn(l, c, a)) <= MaxCalls

(* C2 witness: a caller was admitted more than MaxCalls times over time,   *)
(* its window is full again and its last call was denied.                  *)
C2_Witness ==
    \E l \in Limiters, c \in Callers :
        /\ Len(admitted[l][c]) > MaxCalls
        /\ Len(Window(HistoryOf(l), c)) = MaxCalls
        /\ rl_last.limiter = l /\ rl_last.caller = c /\ ~rl_last.admitted

(* the admissions of caller c by limiter l less than TimeWindow ago *)
RecentAdmissions(l, c) ==
    {i \in DOMAIN admitted[l][c] : now - admitted[l][c][i] < TimeWindow}

(* C22: a call is admitted when fewer than MaxCalls admitted calls of the  *)
(* caller lie less than TimeWindow back, and denied otherwise: the first   *)
(* MaxCalls calls at one time are admitted and the next is denied, and a   *)
(* call made once TimeWindow has passed since the caller's admitted calls  *)
(* is admitted, whatever calls were denied in between.                     *)
C22_Recovery ==
    [][now' = now =>
        LET l == rl_last'.limiter
            c == rl_last'.caller
        IN  /\ rl_last'.admitted <=>
                   Cardinality(RecentAdmissions(l, c)) < MaxCalls
            /\ RecentAdmissions(l, c) = {} => rl_last'.admitted]_vars

(* MaxCalls calls admitted at one time, then a call denied, and right      *)
(* after it a call admitted exactly TimeWindow after the first             *)
C22_Witness ==
    \E l \in Limiters, c \in Callers :
        /\ Len(admitted[l][c]) = MaxCalls + 1
        /\ \A i \in 1..MaxCalls : admitted[l][c][i] = admitted[l][c][1]
        /\ admitted[l][c][MaxCalls + 1] = admitted[l][c][1] + TimeWindow
        /\ rl_last.limiter = l /\ rl_last.caller = c /\ rl_last.admitted
        /\ rl_last.after_denial

(***************************************************************************)
(* SessionManager.  Each method returns the storage it leaves and its      *)
(* result.  SESSION_TIMEOUT is the configured timeout in seconds.          *)
(***************************************************************************)
SESSION_TIMEOUT == 2

FreshSessionAtZero(t) == [created_at |-> 0, last_accessed |-> 0]

FreshSession(t) == [created_at |-> t, last_accessed |-> t]

TimedOutAtLimit(session, t) == t - session.last_accessed >= SESSION_TIMEOUT

TimedOut(session, t) == t - session.last_accessed > SESSION_TIMEOUT

Without(storage, session_id) ==
    [k \in DOMAIN storage \ {session_id} |-> storage[k]]

create_session(session_id, storage, t) ==
    [storage |-> [k \in DOMAIN storage \cup {session_id} |->
                     IF k = session_id THEN FreshSession(t) ELSE storage[k]],
     result |-> session_id]

ValidateKeepingExpired(session_id, storage, t) ==
    IF session_id \notin DOMAIN storage
    THEN [storage |-> storage @@ (session_id :> FreshSession(t)),
          result |-> TRUE]
    ELSE IF TimedOut(storage[session_id], t)
    THEN [storage |-> storage, result |-> FALSE]
    ELSE [storage |-> [storage EXCEPT ![session_id].last_accessed = t],
          result |-> TRUE]

validate_session(session_id, storage, t) ==
    IF session_id \notin DOMAIN storage
    THEN [storage |-> storage @@ (session_id :> FreshSession(t)),
          result |-> TRUE]
    ELSE IF TimedOut(storage[session_id], t)
    THEN [storage |-> Without(storage, session_id), result |-> FALSE]
    ELSE [storage |-> [storage EXCEPT ![session_id].last_accessed = t],
          result |-> TRUE]

end_session(session_id, storage) ==
    IF session_id \in DOMAIN storage
    THEN [storage |-> Without(storage, session_id), result |-> TRUE]
    ELSE [storage |-> storage, result |-> FALSE]

(***************************************************************************)
(* SpecSession: the SessionManager's methods called in any order, on ids   *)
(* it created (the token create_session draws is any id) or was handed.    *)
(***************************************************************************)
(* the history of an id's calls with one more call, the older dropped *)
Keep(calls, call) == [prev |-> calls.latest, latest |-> call]

SessionCall(op, session_id, r) ==
    /\ session_storage' = r.storage
    /\ sess_last' = [op |-> op, id |-> session_id, at |-> now,
                     result |-> r.result]
    /\ sess_calls' = [sess_calls EXCEPT ![session_id] =
                         Keep(@, [op |-> op, at |-> now, result |-> r.result])]
    /\ removed_at' =
          IF session_id \in DOMAIN session_storage
                 /\ session_id \notin DOMAIN r.storage
          THEN [id \in DOMAIN removed_at \cup {session_id} |->
                   IF id = session_id THEN now ELSE removed_at[id]]
          ELSE removed_at
    /\ UNCHANGED <<pureVars, last, now, debug, call_history, mw_call_history, rlVars, concVars>>

CreateSession(token) ==
    LET r == create_session(token, session_storage, now)
    IN  SessionCall("create", token, [r EXCEPT !.result = TRUE])

ValidateSession(session_id) ==
    SessionCall("validate", session_id,
                validate_session(session_id, session_storage, now))

EndSession(session_id) ==
    SessionCall("end", session_id, end_session(session_id, session_storage))

NextSession ==
    \/ Tick
    \/ \E token \in SessionIds : CreateSession(token)
    \/ \E session_id \in SessionIds : ValidateSession(session_id)
    \/ \E session_id \in SessionIds : EndSession(session_id)

SpecSession == Init /\ [][NextSession]_vars

(* C10: validate(id) at time now creates a fresh record for id and returns *)
(* true when id has no record; deletes the record and returns false when   *)
(* now - last_accessed > SESSION_TIMEOUT; otherwise (equality included)    *)
(* sets last_accessed to now and returns true.  So after a true result id  *)
(* has a record with last_accessed = now, after a false one it has none.   *)
C10_Validate ==
    [][(now' = now /\ sess_last'.op = "validate") =>
        LET id == sess_last'.id
            result == sess_last'.result
            known == id \in DOMAIN session_storage
            age == now - session_storage[id].last_accessed
        IN  /\ ~known =>
                  /\ result
                  /\ id \in DOMAIN session_storage'
                  /\ session_storage'[id] = FreshSession(now)
            /\ (known /\ age > SESSION_TIMEOUT) =>
                  /\ ~result
                  /\ id \notin DOMAIN session_storage'
            /\ (known /\ age <= SESSION_TIMEOUT) =>
                  /\ result
                  /\ id \in DOMAIN session_storage'
                  /\ session_storage'[id] =
                        [session_storage[id] EXCEPT !.last_accessed = now]
            /\ result =>
                  /\ id \in DOMAIN session_storage'
                  /\ session_storage'[id].last_accessed = now
            /\ ~result => id \notin DOMAIN session_storage'
            /\ \A other \in SessionIds \ {id} :
                  /\ other \in DOMAIN session_storage'
                        <=> other \in DOMAIN session_storage
                  /\ other \in DOMAIN session_storage =>
                        session_storage'[other] = session_storage[other]]_vars

(* C10 witness: a validate returned false (the record had expired) after   *)
(* an earlier validate at exactly the timeout had refreshed a record.      *)
C10_Witness ==
    /\ sess_last.op = "validate"
    /\ ~sess_last.result
    /\ sess_last.id \notin DOMAIN session_storage
    /\ \E other \in DOMAIN session_storage :
          /\ session_storage[other].last_accessed = now
          /\ now - session_storage[other].created_at > SESSION_TIMEOUT

(* C11: for each id, a validate on an id never used (or just ended)        *)
(* returns true; a validate that follows a true validate returns true      *)
(* when at most SESSION_TIMEOUT has elapsed since it and false when more   *)
(* has; the validate that follows a false validate returns true and        *)
(* leaves a fresh record, so validate is never false twice in a row.       *)
C11_ExpirySequence ==
    \A id \in SessionIds :
        LET p == sess_calls[id].prev
            l == sess_calls[id].latest
        IN  l.op = "validate" =>
                /\ p.op \in {"none", "end"} => l.result
                /\ (p.op = "validate" /\ p.result
                        /\ l.at - p.at <= SESSION_TIMEOUT) => l.result
                /\ (p.op = "validate" /\ p.result
                        /\ l.at - p.at > SESSION_TIMEOUT) => ~l.result
                /\ (p.op = "validate" /\ ~p.result) =>
                       /\ l.result
                       /\ id \in DOMAIN session_storage
                       /\ session_storage[id] = FreshSession(l.at)

(* an id whose validate returned false after the timeout and whose next    *)
(* validate, later still, recreated the record                             *)
C11_Witness ==
    \E id \in SessionIds :
        /\ sess_calls[id].prev.op = "validate"
        /\ ~sess_calls[id].prev.result
        /\ sess_calls[id].latest.op = "validate"
        /\ sess_calls[id].latest.result
        /\ sess_calls[id].latest.at > sess_calls[id].prev.at
        /\ sess_calls[id].prev.at > SESSION_TIMEOUT

(* C12: a record that exists for an id after the id's record was removed   *)
(* (by expiry or by end_session) has created_at and last_accessed no       *)
(* earlier than the removal.                                               *)
C12_NoRevival ==
    \A id \in DOMAIN session_storage \cap DOMAIN removed_at :
        /\ session_storage[id].created_at >= removed_at[id]
        /\ session_storage[id].last_accessed >= removed_at[id]

(* a record recreated for an id whose record had expired *)
C12_Witness ==
    \E id \in DOMAIN session_storage \cap DOMAIN removed_at :
        /\ removed_at[id] > SESSION_TIMEOUT
        /\ sess_calls[id].prev.op = "validate"
        /\ ~sess_calls[id].prev.result
        /\ session_storage[id].created_at >= removed_at[id]

(***************************************************************************)
(* SpecConc: the threads of the Streamlit process inside the middleware    *)
(* rate_limit wrapper, all called without a session_id keyword (as         *)
(* get_response is).  The wrapper takes no lock: between two of its        *)
(* statements another thread may run.                                      *)
(***************************************************************************)
Goto(t, place) == pc' = [pc EXCEPT ![t] = place]

T_Enter(t) ==
    /\ pc[t] = "idle"
    /\ mw_call_history' = WithCaller(mw_call_history, DEFAULT_CALLER)
    /\ Goto(t, "clock")
    /\ UNCHANGED <<pureVars, last, now, debug, call_history, rlVars, sessVars, t_time, t_calls>>

T_Clock(t) ==
    /\ pc[t] = "clock"
    /\ t_time' = [t_time EXCEPT ![t] = now]
    /\ Goto(t, "filter")
    /\ UNCHANGED <<pureVars, last, now, debug, call_history, mw_call_history, rlVars, sessVars,
                   t_calls>>

T_Filter(t) ==
    /\ pc[t] = "filter"
    /\ t_calls' = [t_calls EXCEPT
                      ![t] = Prune(mw_call_history[DEFAULT_CALLER], t_time[t])]
    /\ Goto(t, "store")
    /\ UNCHANGED <<pureVars, last, now, debug, call_history, mw_call_history, rlVars, sessVars,
                   t_time>>

T_Store(t) ==
    /\ pc[t] = "store"
    /\ mw_call_history' =
           [mw_call_history EXCEPT ![DEFAULT_CALLER] = t_calls[t]]
    /\ Goto(t, "check")
    /\ UNCHANGED <<pureVars, last, now, debug, call_history, rlVars, sessVars, t_time, t_calls>>

T_Check(t) ==
    /\ pc[t] = "check"
    /\ IF LimitReached(mw_call_history[DEFAULT_CALLER])
       THEN Goto(t, "idle")
       ELSE Goto(t, "append")
    /\ UNCHANGED <<pureVars, last, now, debug, call_history, mw_call_history, rlVars,
                   sessVars, t_time, t_calls>>

T_Append(t) ==
    /\ pc[t] = "append"
    /\ mw_call_history' =
           [mw_call_history EXCEPT ![DEFAULT_CALLER] = Append(@, t_time[t])]
    /\ Goto(t, "idle")
    /\ UNCHANGED <<pureVars, last, now, debug, call_history, rlVars, sessVars, t_time, t_calls>>

NextConc ==
    \/ Tick
    \/ \E t \in Threads : T_Enter(t)
    \/ \E t \in Threads : T_Clock(t)
    \/ \E t \in Threads : T_Filter(t)
    \/ \E t \in Threads : T_Store(t)
    \/ \E t \in Threads : T_Check(t)
    \/ \E t \in Threads : T_Append(t)

SpecConc == Init /\ [][NextConc]_vars

(* C3: two concurrent admission checks for the same caller are serialized: *)
(* no interleaving admits both when the window holds MaxCalls - 1 entries, *)
(* so the caller's window never holds more than MaxCalls entries.          *)
C3_Serialized ==
    \A c \in DOMAIN mw_call_history : Len(mw_call_history[c]) <= MaxCalls

(***************************************************************************)
(* Text.  A str is the sequence of its characters.                         *)
(***************************************************************************)
LowerLetters ==
    <<"a", "b", "c", "d", "e", "f", "g", "h", "i", "j", "k", "l", "m",
      "n", "o", "p", "q", "r", "s", "t", "u", "v", "w", "x", "y", "z">>

UpperLetters ==
    <<"A", "B", "C", "D", "E", "F", "G", "H", "I", "J", "K", "L", "M",
      "N", "O", "P", "Q", "R", "S", "T", "U", "V", "W", "X", "Y", "Z">>

Digits == {"0", "1", "2", "3", "4", "5", "6", "7", "8", "9"}

Range(seq) == {seq[i] : i \in DOMAIN seq}

(* \w *)
IsWordChar(c) ==
    c \in Range(LowerLetters) \cup Range(UpperLetters) \cup Digits \cup {"_"}

(* \s, and the characters str.strip() removes *)
IsSpace(c) == c \in {" ", "\t", "\n", "\r", "\f"}

(* the punctuation ALLOWED_CHARS_PATTERN lists after \w and \s *)
AllowedPunctuation ==
    {"-", ".", ",", "?", "!", "@", "#", "$", "%", "^", "&", "*", "(", ")",
     "+", "=", "[", "]", "{", "}", "|", "\\", ":", ";", "\"", "'", "<", ">",
     "/"}

IsAllowedChar(c) ==
    IsWordChar(c) \/ IsSpace(c) \/ c \in AllowedPunctuation

(* str.upper(), character by character *)
UpperChar(c) ==
    IF c \in Range(LowerLetters)
    THEN UpperLetters[CHOOSE i \in DOMAIN LowerLetters : LowerLetters[i] = c]
    ELSE c

Upper(s) == [i \in DOMAIN s |-> UpperChar(s[i])]

StartsWith(s, prefix) ==
    Len(s) >= Len(prefix) /\ SubSeq(s, 1, Len(prefix)) = prefix

(* whether sub occurs in s: Python's `sub in s` *)
Contains(s, sub) ==
    \E i \in 1..(Len(s) - Len(sub) + 1) : SubSeq(s, i, i + Len(sub) - 1) = sub

(* str.strip(): without the leading and trailing whitespace *)
Strip(s) ==
    LET inner == {i \in DOMAIN s : ~IsSpace(s[i])}
    IN  IF inner = {} THEN <<>>
        ELSE SubSeq(s, CHOOSE i \in inner : \A j \in inner : i <= j,
                       CHOOSE i \in inner : \A j \in inner : i >= j)

(***************************************************************************)
(* InputValidator.sanitize_input (index.py).  MAX_INPUT_LENGTH is 1000 in  *)
(* the code, scaled down here.                                             *)
(***************************************************************************)
MAX_INPUT_LENGTH == 2

(* re.match(ALLOWED_CHARS_PATTERN, s): one or more allowed characters up    *)
(* to the end ("$" also matches before a final newline, itself allowed)    *)
MatchesAllowedChars(s) ==
    Len(s) >= 1 /\ \A i \in DOMAIN s : IsAllowedChar(s[i])

(* the length checked after the trimming, not before it *)
sanitize_input_trimmed_length(user_input) ==
    IF user_input.t # "str" THEN PyNone
    ELSE IF Len(Strip(user_input.v)) > MAX_INPUT_LENGTH THEN PyNone
    ELSE IF ~MatchesAllowedChars(user_input.v) THEN PyNone
    ELSE PyStr(Strip(user_input.v))

sanitize_input(user_input) ==
    IF user_input.t # "str" THEN PyNone
    ELSE IF Len(user_input.v) > MAX_INPUT_LENGTH THEN PyNone
    ELSE IF ~MatchesAllowedChars(user_input.v) THEN PyNone
    ELSE PyStr(Strip(user_input.v))

(* the copy of the web application (security_config.py), whose limit is   *)
(* SecurityConfig.MAX_INPUT_LENGTH, scaled down alike                      *)
security_config_sanitize_input(user_input) ==
    IF user_input.t # "str" THEN PyNone
    ELSE IF Len(user_input.v) > MAX_INPUT_LENGTH THEN PyNone
    ELSE IF ~MatchesAllowedChars(user_input.v) THEN PyNone
    ELSE PyStr(Strip(user_input.v))

(* the wrapper of validate_input (middleware.py): it raises ValueError or  *)
(* hands the sanitized input to the wrapped function                       *)
mw_validate_input(user_input) ==
    LET sanitized_input == security_config_sanitize_input(user_input)
    IN  IF sanitized_input = PyNone
        THEN [raised |-> TRUE, handed |-> PyNone]
        ELSE [raised |-> FALSE, handed |-> sanitized_input]

(* Python truth value: `not x` is ~PyTruthy(x) *)
PyTruthy(x) ==
    CASE x.t = "none" -> FALSE
      [] x.t = "str" -> x.v # <<>>
      [] x.t = "int" -> x.v # <<"0">>
      [] x.t = "dict" -> DOMAIN x.v # {}
      [] x.t = "list" -> x.v # <<>>
      [] OTHER -> TRUE

PyDict(fields) == [t |-> "dict", v |-> fields]

(* dict.get(key), None when the key is missing *)
DictGet(d, key) == IF key \in DOMAIN d.v THEN d.v[key] ELSE PyNone

(* `key in rec` and rec.get(key, default) of a mapping given as a record *)
Has(rec, key) == key \in DOMAIN rec

GetOr(rec, key, default) == IF key \in DOMAIN rec THEN rec[key] ELSE default

(***************************************************************************)
(* Logging (index.py).  A log entry is the message's fixed text and the    *)
(* value formatted into it.                                                *)
(***************************************************************************)
Text(message) == [t |-> "text", v |-> <<message>>]

LogEntry(text, arg) == [text |-> text, arg |-> arg]

SENSITIVE_PLACEHOLDER ==
    LogEntry("Sensitive data logged in debug mode only", PyNone)

(* the message logged whether it is sensitive or not *)
safe_log_unredacted(w, entry, sensitive) ==
    [w EXCEPT !.log = Append(@, entry)]

safe_log(w, entry, sensitive) ==
    IF sensitive /\ ~w.debug
    THEN [w EXCEPT !.log = Append(@, SENSITIVE_PLACEHOLDER)]
    ELSE [w EXCEPT !.log = Append(@, entry)]

(***************************************************************************)
(* The decorators of index.py.  Each wrapper is given as what it does      *)
(* before calling the wrapped function and what it does with the outcome.  *)
(***************************************************************************)
(* `except ValueError` also catches its subclasses *)
IsValueError(exc) == exc \in {"ValueError", "UnicodeDecodeError"}

INVALID_INPUT == PyDict([error |-> "Invalid input", status |-> 400])

INTERNAL_ERROR == PyDict([error |-> "An internal error occurred", status |-> 500])

error_handler(r) ==
    IF ~r.raised THEN r
    ELSE IF IsValueError(r.exc)
    THEN Return(safe_log(r.w, LogEntry("Validation error: ", Text(r.msg)), FALSE),
                INVALID_INPUT)
    ELSE Return(safe_log(r.w, LogEntry("Internal error: ", Text(r.msg)), FALSE),
                INTERNAL_ERROR)

audit_log_before(name, w) ==
    safe_log(w, LogEntry("Audit: Calling ", Text(name)), TRUE)

audit_log_after(name, r) ==
    IF r.raised THEN r
    ELSE [r EXCEPT !.w = safe_log(r.w,
              LogEntry("Audit: completed successfully: ", Text(name)), FALSE)]

(* the arguments of a call as a log message formats them *)
CallText(name, args, kwargs) ==
    [t |-> "call", v |-> [name |-> name, args |-> args, kwargs |-> kwargs]]

(* audit_log of middleware.py, whose first message holds the arguments *)
mw_audit_log_before(name, args, kwargs, w) ==
    safe_log(w, LogEntry("Audit: Calling with args, kwargs: ",
                         CallText(name, args, kwargs)), TRUE)

mw_audit_log_after(name, r) ==
    IF r.raised THEN r
    ELSE [r EXCEPT !.w = safe_log(r.w,
              LogEntry("Audit: completed successfully: ", Text(name)), FALSE)]

(***************************************************************************)
(* The agent collaborator, as invoke_agent sees it.  What a collaborator   *)
(* does on a call is an outcome without a world.                           *)
(***************************************************************************)
ExtReturn(value) == [raised |-> FALSE, exc |-> "", msg |-> "", value |-> value]

ExtRaise(exc, msg) == [raised |-> TRUE, exc |-> exc, msg |-> msg, value |-> PyNone]

(* str.isdigit() *)
IsDigitStr(x) ==
    x.t = "str" /\ x.v # <<>> /\ \A i \in DOMAIN x.v : x.v[i] \in Digits

DigitValue(c) ==
    CHOOSE n \in 0..9 :
        <<"0", "1", "2", "3", "4", "5", "6", "7", "8", "9">>[n + 1] = c

RECURSIVE ParseInt(_)
(* int(s) of a string of digits *)
ParseInt(s) ==
    IF s = <<>> THEN 0
    ELSE 10 * ParseInt(SubSeq(s, 1, Len(s) - 1)) + DigitValue(s[Len(s)])

RECURSIVE HighestAlias(_, _, _)
(* the loop of get_highest_agent_version_alias_id: best is <<>> while       *)
(* highest_version is None, else <<highest_version, alias id>>             *)
HighestAlias(summaries, i, best) ==
    IF i > Len(summaries) THEN best
    ELSE LET alias_summary == summaries[i]
             routing == alias_summary.routingConfiguration
             agent_version == routing[1].agentVersion
         IN  IF routing = <<>> THEN HighestAlias(summaries, i + 1, best)
             ELSE IF ~PyTruthy(agent_version) \/ ~IsDigitStr(agent_version)
             THEN HighestAlias(summaries, i + 1, best)
             ELSE IF best = <<>> \/ ParseInt(agent_version.v) > best[1]
             THEN HighestAlias(summaries, i + 1,
                      <<ParseInt(agent_version.v), alias_summary.agentAliasId>>)
             ELSE HighestAlias(summaries, i + 1, best)

get_highest_agent_version_alias_id(response) ==
    LET best == HighestAlias(GetOr(response.v, "agentAliasSummaries", <<>>),
                             1, <<>>)
    IN  IF best = <<>> THEN PyNone ELSE best[2]

(***************************************************************************)
(* invoke_agent: rate_limit around error_handler around audit_log around   *)
(* the function body.  kwargs are the keyword arguments of the call.       *)
(***************************************************************************)
LogAndReraise(w, exc, msg) ==
    Raise(safe_log(w, LogEntry("Agent invocation error: ", Text(msg)), FALSE),
          exc, msg)

AgentCall(agent_alias_id, session_id, input_text) ==
    [agentAliasId |-> agent_alias_id, sessionId |-> session_id,
     inputText |-> input_text]

AgentTextRaw(user_input, sanitized_input) == user_input

AgentText(user_input, sanitized_input) == sanitized_input

Rejected(sanitized_input) == ~PyTruthy(sanitized_input)

invoke_agent_try(sanitized_input, user_input, session_id, ext, w) ==
    IF ext.aliases.raised
    THEN LogAndReraise(w, ext.aliases.exc, ext.aliases.msg)
    ELSE LET w1 == safe_log(w, LogEntry("Agent aliases retrieved", PyNone), TRUE)
             agent_alias_id ==
                 get_highest_agent_version_alias_id(ext.aliases.value)
             w2 == [w1 EXCEPT !.agent = Append(@,
                       AgentCall(agent_alias_id, session_id,
                                 AgentText(user_input, sanitized_input)))]
         IN  IF ~PyTruthy(agent_alias_id)
             THEN LogAndReraise(w1, "ValueError",
                                "No agent published alias found")
             ELSE IF ext.invoke.raised
             THEN LogAndReraise(w2, ext.invoke.exc, ext.invoke.msg)
             ELSE Return(w2, ext.invoke.value)

invoke_agent_body(user_input, session_id, ext, w) ==
    LET sanitized_input == sanitize_input(user_input)
        w1 == Ran(w, "sanitize_input")
    IN  IF Rejected(sanitized_input)
        THEN Raise(w1, "ValueError", "Invalid input")
        ELSE invoke_agent_try(sanitized_input, user_input, session_id, ext,
                              Ran(w1, "invoke_agent"))

invoke_agent_admitted(user_input, session_id, ext, admitted_call) ==
    LET w1 == Ran(admitted_call.w, "error_handler")
        w2 == audit_log_before("invoke_agent", Ran(w1, "audit_log"))
    IN  IF admitted_call.raised THEN admitted_call
        ELSE Only({error_handler(audit_log_after("invoke_agent", r)) :
                      r \in {invoke_agent_body(user_input, session_id, ext, w2)}})

invoke_agent(user_input, session_id, kwargs, ext, w) ==
    Only({invoke_agent_admitted(user_input, session_id, ext, admitted_call) :
             admitted_call \in {rate_limit(kwargs, Ran(w, "rate_limit"))}})

(***************************************************************************)
(* QueryGuard (index.py): InputValidator.validate_sql_query and            *)
(* extract_sql_query.                                                      *)
(***************************************************************************)
ALLOWED_SQL_KEYWORDS ==
    {<<"S", "E", "L", "E", "C", "T">>, <<"F", "R", "O", "M">>,
     <<"W", "H", "E", "R", "E">>, <<"A", "N", "D">>, <<"O", "R">>,
     <<"I", "N">>, <<"L", "I", "K", "E">>, <<"L", "I", "M", "I", "T">>,
     <<"O", "R", "D", "E", "R">>, <<"B", "Y">>, <<"A", "S", "C">>,
     <<"D", "E", "S", "C">>, <<"G", "R", "O", "U", "P">>,
     <<"H", "A", "V", "I", "N", "G">>, <<"J", "O", "I", "N">>}

SQL_STOPWORDS ==
    {<<"A", "N", "D">>, <<"O", "R">>, <<"I", "N">>, <<"T", "H", "E">>,
     <<"A", "S">>, <<"O", "N">>}

(* set(re.findall(r"\b\w+\b", s)): the maximal runs of word characters *)
Words(s) ==
    {SubSeq(s, i, j) : <<i, j>> \in
        {p \in (DOMAIN s) \X (DOMAIN s) :
            /\ p[1] <= p[2]
            /\ \A m \in p[1]..p[2] : IsWordChar(s[m])
            /\ p[1] = 1 \/ ~IsWordChar(s[p[1] - 1])
            /\ p[2] = Len(s) \/ ~IsWordChar(s[p[2] + 1])}}

(* the check without its first disjunct, ";" in query *)
HasCommentPattern(query) ==
    \/ Contains(query, <<"-", "-">>)
    \/ Contains(query, <<"/", "*">>)

HasInjectionPattern(query) ==
    \/ Contains(query, <<";">>)
    \/ Contains(query, <<"-", "-">>)
    \/ Contains(query, <<"/", "*">>)

validate_sql_query(query) ==
    LET query_words == Words(Upper(query))
        sql_words == query_words \ SQL_STOPWORDS
    IN  IF ~(sql_words \subseteq ALLOWED_SQL_KEYWORDS) THEN FALSE
        ELSE IF HasInjectionPattern(query) THEN FALSE
        ELSE TRUE

(* the copy of the web application (security_config.py) *)
security_config_validate_sql_query(query) ==
    LET query_words == Words(Upper(query))
        sql_words == query_words \ SQL_STOPWORDS
    IN  IF ~(sql_words \subseteq ALLOWED_SQL_KEYWORDS) THEN FALSE
        ELSE IF Contains(query, <<";">>) THEN FALSE
        ELSE IF Contains(query, <<"-", "-">>) \/ Contains(query, <<"/", "*">>)
        THEN FALSE
        ELSE TRUE

SELECT_WORD == <<"S", "E", "L", "E", "C", "T">>

RETURNED_INFORMATION ==
    <<"R", "e", "t", "u", "r", "n", "e", "d", " ", "i", "n", "f", "o", "r", "m", "a", "t", "i", "o", "n">>

(* the pattern's literals match case-insensitively (re.IGNORECASE) *)
MatchesAt(text, k, literal) ==
    /\ k + Len(literal) - 1 <= Len(text)
    /\ Upper(SubSeq(text, k, k + Len(literal) - 1)) = Upper(literal)

(* "$" without re.MULTILINE: the end, or before a final newline *)
AtEnd(text, k) ==
    k = Len(text) + 1 \/ (k = Len(text) /\ text[k] = "\n")

(* (?=\n\s*(?:Returned information|$)) at position j *)
LookAhead(text, j) ==
    /\ j <= Len(text)
    /\ text[j] = "\n"
    /\ \E k \in (j + 1)..(Len(text) + 1) :
          /\ \A m \in (j + 1)..(k - 1) : IsSpace(text[m])
          /\ MatchesAt(text, k, RETURNED_INFORMATION) \/ AtEnd(text, k)

(* where (SELECT.*?) may end when it starts at i: after the word, lazily *)
GroupEnds(text, i) ==
    {j \in (i + Len(SELECT_WORD))..Len(text) : LookAhead(text, j)}

Least(S) == CHOOSE x \in S : \A y \in S : x <= y

(* the query returned without validate_sql_query *)
extract_sql_query_unvalidated(input_string) ==
    LET starts == {i \in DOMAIN input_string :
                      /\ MatchesAt(input_string, i, SELECT_WORD)
                      /\ GroupEnds(input_string, i) # {}}
        i == Least(starts)
        j == Least(GroupEnds(input_string, i))
        query == Strip(SubSeq(input_string, i, j - 1))
    IN  IF starts = {} THEN PyNone ELSE PyStr(query)

extract_sql_query(input_string) ==
    LET starts == {i \in DOMAIN input_string :
                      /\ MatchesAt(input_string, i, SELECT_WORD)
                      /\ GroupEnds(input_string, i) # {}}
        i == Least(starts)
        j == Least(GroupEnds(input_string, i))
        query == Strip(SubSeq(input_string, i, j - 1))
    IN  IF starts = {} THEN PyNone
        ELSE IF validate_sql_query(query) THEN PyStr(query)
        ELSE PyNone

(***************************************************************************)
(* ResponseReducer: get_agent_response (index.py).  Events, chunks,        *)
(* citations, references and traces are records holding the keys they      *)
(* carry; bytes are a sequence of characters and undecodable bytes.        *)
(***************************************************************************)
INVALID_BYTES == {"<ff>", "<fe>"}

(* the two bytes 0xc3 0xa9 are the UTF-8 encoding of one character; a byte *)
(* below 0x80 is written as the character it encodes                       *)
LEAD_BYTE == "<c3>"

CONTINUATION_BYTE == "<a9>"

E_ACUTE == "<U+00E9>"

(* the positions at which bytes.decode("utf-8") cannot go on *)
Undecodable(bytes) ==
    {i \in DOMAIN bytes :
        \/ bytes[i] \in INVALID_BYTES
        \/ bytes[i] = LEAD_BYTE
              /\ (i = Len(bytes) \/ bytes[i + 1] # CONTINUATION_BYTE)
        \/ bytes[i] = CONTINUATION_BYTE
              /\ (i = 1 \/ bytes[i - 1] # LEAD_BYTE)}

DecodeFails(bytes) == Undecodable(bytes) # {}

(* str(e) of the UnicodeDecodeError names the first undecodable byte *)
DecodeErrorMessage(bytes) ==
    LET i == Least(Undecodable(bytes))
    IN  IF bytes[i] = "<ff>"
        THEN "'utf-8' codec can't decode byte 0xff"
        ELSE IF bytes[i] = "<fe>"
        THEN "'utf-8' codec can't decode byte 0xfe"
        ELSE IF bytes[i] = LEAD_BYTE
        THEN "'utf-8' codec can't decode byte 0xc3"
        ELSE "'utf-8' codec can't decode byte 0xa9"

RECURSIVE Decode(_)
(* chunk_bytes.decode("utf-8") of bytes that can be decoded *)
Decode(bytes) ==
    IF bytes = <<>> THEN <<>>
    ELSE IF bytes[1] = LEAD_BYTE
    THEN <<E_ACUTE>> \o Decode(SubSeq(bytes, 3, Len(bytes)))
    ELSE <<bytes[1]>> \o Decode(Tail(bytes))

ReducerStart(w) ==
    [w |-> w, raised |-> FALSE, exc |-> "", msg |-> "", chunk_text |-> <<>>,
     reference_text |-> <<>>, source_file_list |-> <<>>, trace_list |-> <<>>]

(* reference_text += ... in place of reference_text = ... *)
ReduceReferenceAccumulating(acc, reference) ==
    LET a1 == IF Has(reference, "content") /\ Has(reference.content, "text")
              THEN [acc EXCEPT !.reference_text = @ \o reference.content.text]
              ELSE acc
        source_file ==
            IF Has(reference, "location") /\ Has(reference.location, "s3Location")
            THEN GetOr(reference.location.s3Location, "uri", <<>>)
            ELSE <<>>
    IN  IF source_file # <<>>
        THEN [a1 EXCEPT !.source_file_list = Append(@, source_file)]
        ELSE a1

ReduceReference(acc, reference) ==
    LET a1 == IF Has(reference, "content") /\ Has(reference.content, "text")
              THEN [acc EXCEPT !.reference_text = reference.content.text]
              ELSE acc
        source_file ==
            IF Has(reference, "location") /\ Has(reference.location, "s3Location")
            THEN GetOr(reference.location.s3Location, "uri", <<>>)
            ELSE <<>>
    IN  IF source_file # <<>>
        THEN [a1 EXCEPT !.source_file_list = Append(@, source_file)]
        ELSE a1

RECURSIVE ReduceReferences(_, _)
ReduceReferences(acc, references) ==
    IF references = <<>> THEN acc
    ELSE Only({ReduceReferences(a, Tail(references)) :
                  a \in {ReduceReference(acc, Head(references))}})

ReduceCitation(acc, citation) ==
    LET response_part ==
            GetOr(GetOr(citation, "generatedResponsePart", <<>>),
                  "textResponsePart", <<>>)
        a1 == IF Has(citation, "generatedResponsePart")
                   /\ Has(response_part, "text")
              THEN [acc EXCEPT !.w = safe_log(@,
                       LogEntry("Response part: ", PyStr(response_part.text)),
                       FALSE)]
              ELSE acc
    IN  IF Has(citation, "retrievedReferences")
        THEN ReduceReferences(a1, citation.retrievedReferences)
        ELSE a1

RECURSIVE ReduceCitations(_, _)
ReduceCitations(acc, citations) ==
    IF citations = <<>> THEN acc
    ELSE Only({ReduceCitations(a, Tail(citations)) :
                  a \in {ReduceCitation(acc, Head(citations))}})

(* chunk_text = decoded_chunk in place of chunk_text += decoded_chunk *)
OverwriteChunk(chunk_text, decoded_chunk) == decoded_chunk

AppendChunk(chunk_text, decoded_chunk) == chunk_text \o decoded_chunk

ReduceChunk(acc, chunk) ==
    LET chunk_bytes == GetOr(chunk, "bytes", <<>>)
        a1 == IF chunk_bytes # <<>>
              THEN [acc EXCEPT !.chunk_text = AppendChunk(@, Decode(chunk_bytes))]
              ELSE acc
    IN  IF DecodeFails(chunk_bytes)
        THEN [acc EXCEPT !.raised = TRUE, !.exc = "UnicodeDecodeError",
                         !.msg = DecodeErrorMessage(chunk_bytes)]
        ELSE IF Has(chunk, "attribution")
        THEN ReduceCitations(a1, GetOr(chunk.attribution, "citations", <<>>))
        ELSE a1

ReduceEvent(acc, event) ==
    LET a1 == IF Has(event, "trace")
              THEN [acc EXCEPT !.trace_list = Append(@, event.trace)]
              ELSE acc
    IN  IF Has(event, "chunk") THEN ReduceChunk(a1, event.chunk) ELSE a1

RECURSIVE ReduceEvents(_, _)
ReduceEvents(acc, events) ==
    IF events = <<>> \/ acc.raised THEN acc
    ELSE Only({ReduceEvents(a, Tail(events)) :
                  a \in {ReduceEvent(acc, Head(events))}})

(* the action-group text output of a trace, <<>> when it has none *)
ActionGroupOutput(trace) ==
    LET inner == GetOr(trace, "trace", <<>>)
        observation ==
            GetOr(GetOr(inner, "orchestrationTrace", <<>>), "observation", <<>>)
    IN  IF Has(inner, "orchestrationTrace")
             /\ GetOr(observation, "type", "") = "ACTION_GROUP"
        THEN GetOr(GetOr(observation, "actionGroupInvocationOutput", <<>>),
                   "text", <<>>)
        ELSE <<>>

(* source_file_list.append(sql_query) in place of source_file_list = [sql_query] *)
ReduceTraceAppending(acc, trace) ==
    LET output == ActionGroupOutput(trace)
        sql_query == extract_sql_query(output)
    IN  IF output # <<>> /\ PyTruthy(sql_query)
        THEN [acc EXCEPT !.source_file_list = Append(@, sql_query.v)]
        ELSE acc

ReduceTrace(acc, trace) ==
    LET output == ActionGroupOutput(trace)
        sql_query == extract_sql_query(output)
    IN  IF output # <<>> /\ PyTruthy(sql_query)
        THEN [acc EXCEPT !.source_file_list = <<sql_query.v>>]
        ELSE acc

RECURSIVE ReduceTraces(_, _)
ReduceTraces(acc, traces) ==
    IF traces = <<>> THEN acc
    ELSE Only({ReduceTraces(a, Tail(traces)) :
                  a \in {ReduceTrace(acc, Head(traces))}})

(* response.get("completion", []) in place of the check for the key *)
get_agent_response_lenient(response, w) ==
    Only({
       IF pass1.raised
       THEN Raise(safe_log(pass1.w,
                      LogEntry("Error processing agent response: ",
                               Text(pass1.msg)), FALSE),
                  pass1.exc, pass1.msg)
       ELSE Only({Return(pass2.w, <<pass2.chunk_text, pass2.reference_text,
                                    pass2.source_file_list>>) :
                     pass2 \in {ReduceTraces(pass1, pass1.trace_list)}}) :
       pass1 \in {ReduceEvents(ReducerStart(w),
                               GetOr(response.v, "completion", <<>>))}})

get_agent_response(response, w) ==
    IF ~Has(response.v, "completion")
    THEN Raise(w, "ValueError", "No completion found in response")
    ELSE Only({
           IF pass1.raised
           THEN Raise(safe_log(pass1.w,
                          LogEntry("Error processing agent response: ",
                                   Text(pass1.msg)), FALSE),
                      pass1.exc, pass1.msg)
           ELSE Only({Return(pass2.w, <<pass2.chunk_text, pass2.reference_text,
                                        pass2.source_file_list>>) :
                         pass2 \in {ReduceTraces(pass1, pass1.trace_list)}}) :
           pass1 \in {ReduceEvents(ReducerStart(w), response.v.completion)}})

(***************************************************************************)
(* SourceResolver: source_link (index.py).  The store maps <<bucket, key>> *)
(* to what reading the object gives: kind "error" (the read raises),       *)
(* "notjson" (json.loads raises) or "json" with the parsed content.  An    *)
(* object the store does not hold reads as an error.                       *)
(***************************************************************************)
S3_SCHEME == <<"s", "3", ":", "/", "/">>

S3Get(s3, bucket, obj_key) ==
    IF <<bucket, obj_key>> \in DOMAIN s3 THEN s3[<<bucket, obj_key>>]
    ELSE [kind |-> "error", msg |-> "NoSuchKey"]

(* input_source.split("//")[1] of a string that starts with "s3://" *)
AfterScheme(input_source) ==
    LET rest == SubSeq(input_source, Len(S3_SCHEME) + 1, Len(input_source))
        seps == {i \in 1..(Len(rest) - 1) : rest[i] = "/" /\ rest[i + 1] = "/"}
    IN  IF seps = {} THEN rest ELSE SubSeq(rest, 1, Least(seps) - 1)

(* .split("/", 1) *)
SplitOnce(segment) ==
    LET slashes == {i \in DOMAIN segment : segment[i] = "/"}
    IN  IF slashes = {} THEN <<segment>>
        ELSE <<SubSeq(segment, 1, Least(slashes) - 1),
               SubSeq(segment, Least(slashes) + 1, Len(segment))>>

(* one round of the first loop; acc is [w, list, raised] *)
ResolveSource(acc, input_source, s3) ==
    LET parts == SplitOnce(AfterScheme(input_source))
        object == S3Get(s3, parts[1], parts[2])
        content == object.content
        source_link_url == DictGet(content, "Url")
        source_title == DictGet(content, "Topic")
    IN  IF ~StartsWith(input_source, S3_SCHEME)
        THEN [acc EXCEPT !.w = safe_log(@,
                 LogEntry("Invalid S3 URI: ", PyStr(input_source)), FALSE)]
        ELSE IF Len(parts) # 2
        THEN [acc EXCEPT !.w = safe_log(@,
                 LogEntry("Invalid S3 path format: ", PyStr(input_source)), FALSE)]
        ELSE IF object.kind # "json"
        THEN [acc EXCEPT !.w = safe_log(@,
                 LogEntry("Error reading S3 object: ", Text(object.msg)), FALSE)]
        ELSE IF content.t # "dict"
        THEN [acc EXCEPT !.w = safe_log(@,
                 LogEntry("Error reading S3 object: ",
                          Text("object has no attribute 'get'")), FALSE)]
        ELSE IF PyTruthy(source_link_url) /\ PyTruthy(source_title)
        THEN [acc EXCEPT !.list = Append(@, <<source_title, source_link_url>>)]
        ELSE acc

RECURSIVE ResolveSources(_, _, _)
ResolveSources(acc, input_source_list, s3) ==
    IF input_source_list = <<>> THEN acc
    ELSE Only({ResolveSources(a, Tail(input_source_list), s3) :
                  a \in {ResolveSource(acc, Head(input_source_list), s3)}})

Hashable(x) == x.t \notin {"list", "dict"}

(* list(source_dict_list) in place of list(OrderedDict.fromkeys(...)) *)
KeepAll(l) == l

RECURSIVE Unique(_)
(* list(OrderedDict.fromkeys(l)): first occurrences, in order *)
Unique(l) ==
    IF l = <<>> THEN <<>>
    ELSE LET front == Unique(SubSeq(l, 1, Len(l) - 1))
             x == l[Len(l)]
         IN  IF \E i \in DOMAIN front : front[i] = x THEN front
             ELSE Append(front, x)

HTTP_PREFIXES ==
    {<<"h", "t", "t", "p", ":", "/", "/">>,
     <<"h", "t", "t", "p", "s", ":", "/", "/">>}

(* re.match(r"^https?://", link) *)
IsHttpUrl(link) == \E prefix \in HTTP_PREFIXES : StartsWith(link, prefix)

RECURSIVE IntToStr(_)
IntToStr(n) ==
    LET d == <<"0", "1", "2", "3", "4", "5", "6", "7", "8", "9">>[(n % 10) + 1]
    IN  IF n < 10 THEN <<d>> ELSE Append(IntToStr(n \div 10), d)

(* f"{i}. [{title}]({link})\n\n" *)
FormatReference(i, title, link) ==
    IntToStr(i) \o <<".", " ", "[">> \o title.v \o <<"]", "(">> \o link.v
        \o <<")", "\n", "\n">>

RECURSIVE FormatReferences(_, _, _)
(* the second loop from position i on; acc is [w, refs_str, raised] *)
FormatReferences(acc, unique_sources, i) ==
    IF i > Len(unique_sources) \/ acc.raised THEN acc
    ELSE LET title == unique_sources[i][1]
             link == unique_sources[i][2]
         IN  IF link.t # "str"
             THEN [acc EXCEPT !.raised = TRUE]
             ELSE IF ~IsHttpUrl(link.v)
             THEN FormatReferences(
                      [acc EXCEPT !.w = safe_log(@,
                          LogEntry("Invalid URL format: ", link), FALSE)],
                      unique_sources, i + 1)
             ELSE FormatReferences(
                      [acc EXCEPT !.refs_str = @ \o FormatReference(i, title, link)],
                      unique_sources, i + 1)

source_link_fetched(fetched) ==
    LET unhashable == \E i \in DOMAIN fetched.list :
                         ~Hashable(fetched.list[i][1]) \/ ~Hashable(fetched.list[i][2])
        unique_sources == Unique(fetched.list)
        formatted == FormatReferences(
                         [w |-> fetched.w, refs_str |-> <<>>, raised |-> FALSE],
                         unique_sources, 1)
    IN  IF unhashable
        THEN Return(safe_log(fetched.w,
                        LogEntry("Error processing source links: ",
                                 Text("unhashable type")), FALSE), <<>>)
        ELSE IF formatted.raised
        THEN Return(safe_log(formatted.w,
                        LogEntry("Error processing source links: ",
                                 Text("expected string or bytes-like object")),
                        FALSE), <<>>)
        ELSE Return(formatted.w, formatted.refs_str)

source_link(input_source_list, s3, w) ==
    Only({source_link_fetched(fetched) :
             fetched \in {ResolveSources([w |-> w, list |-> <<>>],
                                         input_source_list, s3)}})

(***************************************************************************)
(* lambda_handler (index.py): error_handler around audit_log around the    *)
(* body, whose own try/except turns every exception into a response.       *)
(***************************************************************************)
(* the keyword arguments of the call invoke_agent(query, session_id): both *)
(* arguments are positional                                                *)
InvokeAgentKwargs(query, session_id) == NoKwargs

HandlerFailure(w, msg) ==
    Return(safe_log(w, LogEntry("Lambda handler error: ", Text(msg)), FALSE),
           PyDict([error |-> "An internal error occurred", status |-> 500,
                   details |-> msg]))

FinalResult(response, reference_str) ==
    PyDict([answer |-> response, source |-> reference_str])

(* the try block from the agent's outcome on *)
lambda_handler_answer(streaming_response, ext) ==
    IF streaming_response.raised THEN streaming_response
    ELSE Only({
           IF processed.raised THEN processed
           ELSE Only({Return(reference_str.w,
                             FinalResult(processed.value[1], reference_str.value)) :
                         reference_str \in
                             {source_link(processed.value[3], ext.s3, processed.w)}}) :
           processed \in {get_agent_response(streaming_response.value,
                                             streaming_response.w)}})

(* the try block without its two checks of the request *)
lambda_handler_try_unchecked(event, ext, w) ==
    LET w1 == safe_log(w, LogEntry("Processing Lambda event", PyNone), TRUE)
        body == IF Has(event.v, "body") /\ event.v.body.t = "dict"
                THEN event.v.body ELSE PyDict(<<>>)
        query == DictGet(body, "query")
        session_id == DictGet(body, "session_id")
    IN  Only({lambda_handler_answer(streaming_response, ext) :
                 streaming_response \in
                     {invoke_agent(query, session_id,
                                   InvokeAgentKwargs(query, session_id),
                                   ext, w1)}})

lambda_handler_try(event, ext, w) ==
    LET w1 == safe_log(w, LogEntry("Processing Lambda event", PyNone), TRUE)
        body == IF Has(event.v, "body") THEN event.v.body ELSE PyDict(<<>>)
        query == DictGet(body, "query")
        session_id == DictGet(body, "session_id")
    IN  IF body.t # "dict"
        THEN Raise(w1, "ValueError", "Invalid request body")
        ELSE IF ~PyTruthy(query) \/ ~PyTruthy(session_id)
        THEN Raise(w1, "ValueError", "Missing required parameters")
        ELSE Only({lambda_handler_answer(streaming_response, ext) :
                      streaming_response \in
                          {invoke_agent(query, session_id,
                                        InvokeAgentKwargs(query, session_id),
                                        ext, w1)}})

lambda_handler_body(event, ext, w) ==
    Only({IF r.raised THEN HandlerFailure(r.w, r.msg) ELSE r :
             r \in {lambda_handler_try(event, ext, w)}})

lambda_handler(event, ext, w) ==
    Only({error_handler(audit_log_after("lambda_handler", r)) :
             r \in {lambda_handler_body(event, ext,
                        audit_log_before("lambda_handler", w))}})

(***************************************************************************)
(* Spec: the invoke Lambda serving requests.  A request is the event the   *)
(* handler is given and what its collaborators (the agent service and the  *)
(* object store) do during it.                                             *)
(***************************************************************************)
QueryAlphabet == {"a", " ", "~"}

Strings(alphabet, n) == UNION {[1..k -> alphabet] : k \in 0..n}

Queries ==
    {PyStr(s) : s \in Strings(QueryAlphabet, MAX_INPUT_LENGTH + 1)}
        \cup {PyNone, PyInt(<<"5">>)}

Body(query, session_id) ==
    PyDict([body |-> PyDict([query |-> query, session_id |-> session_id])])

S1 == PyStr(<<"s1">>)

S2 == PyStr(<<"s2">>)

PlainQuery == PyStr(<<"a">>)

Events ==
    {Body(q, S1) : q \in Queries}
        \cup {Body(PlainQuery, S2), Body(PyStr(<<" ", "a">>), S2),
              Body(PlainQuery, PyNone),
              PyDict([body |-> PyDict([query |-> PlainQuery])]),
              PyDict([body |-> PyStr(<<"a">>)]),
              PyDict([path |-> PyStr(<<"/">>)])}

PublishedSummaries ==
    <<[routingConfiguration |-> <<[agentVersion |-> PyStr(<<"D", "R", "A", "F", "T">>)]>>,
       agentAliasId |-> PyStr(<<"A", "0">>)],
      [routingConfiguration |-> <<[agentVersion |-> PyStr(<<"2">>)]>>,
       agentAliasId |-> PyStr(<<"A", "2">>)],
      [routingConfiguration |-> <<[agentVersion |-> PyStr(<<"1">>)]>>,
       agentAliasId |-> PyStr(<<"A", "1">>)]>>

AliasList(summaries) == PyDict([agentAliasSummaries |-> summaries])

SOURCE_URI == <<"s", "3", ":", "/", "/", "b", "/", "k">>

SOURCE_URL == <<"h", "t", "t", "p", ":", "/", "/", "u">>

Store ==
    [key \in {<<(<<"b">>), (<<"k">>)>>} |->
        [kind |-> "json",
         content |-> PyDict([Url |-> PyStr(SOURCE_URL),
                             Topic |-> PyStr(<<"T">>)])]]

Envelope(events) == PyDict([completion |-> events])

Chunk(bytes) == [chunk |-> [bytes |-> bytes]]

CitedChunk(bytes, uri) ==
    [chunk |->
        [bytes |-> bytes,
         attribution |->
            [citations |->
                <<[generatedResponsePart |-> [textResponsePart |-> [text |-> bytes]],
                   retrievedReferences |->
                      <<[content |-> [text |-> <<"r">>],
                         location |-> [s3Location |-> [uri |-> uri]]]>>]>>]]]

ActionGroupTrace(text) ==
    [trace |->
        [trace |->
            [orchestrationTrace |->
                [observation |->
                    [type |-> "ACTION_GROUP",
                     actionGroupInvocationOutput |-> [text |-> text]]]]]]

Envelopes ==
    {PyDict([sessionId |-> S1]),
     Envelope(<<Chunk(<<"H", "i">>), Chunk(<<"!">>)>>),
     Envelope(<<CitedChunk(<<"H", "i">>, SOURCE_URI)>>),
     Envelope(<<ActionGroupTrace(<<"S", "E", "L", "E", "C", "T", " ", "*", "\n">>),
                Chunk(<<"7">>)>>),
     Envelope(<<Chunk(<<"H">>), Chunk(<<"<ff>">>)>>),
     Envelope(<<Chunk(<<"H">>), Chunk(<<"<fe>">>)>>)}

Ext(aliases, invoke) == [aliases |-> aliases, invoke |-> invoke, s3 |-> Store]

Answering(envelope) == Ext(ExtReturn(AliasList(PublishedSummaries)), ExtReturn(envelope))

ServiceErrors == {"e1", "e2"}

Exts ==
    {Answering(e) : e \in Envelopes}
        \cup {Ext(ExtReturn(AliasList(<<PublishedSummaries[1]>>)), ExtReturn(Envelope(<<>>)))}
        \cup {Ext(ExtRaise("ClientError", m), ExtReturn(Envelope(<<>>))) :
                 m \in ServiceErrors}
        \cup {Ext(ExtReturn(AliasList(PublishedSummaries)), ExtRaise("ClientError", m)) :
                 m \in ServiceErrors}

Request(event, ext) == [event |-> event, ext |-> ext]

PlainAnswer == Answering(Envelope(<<Chunk(<<"H", "i">>), Chunk(<<"!">>)>>))

PlainEvent == Body(PlainQuery, S1)

(* every event with an agent that answers, and one event with every       *)
(* behaviour of the collaborators                                          *)
Requests ==
    {Request(e, PlainAnswer) : e \in Events}
        \cup {Request(PlainEvent, x) : x \in Exts}

QueryOf(event) ==
    IF Has(event.v, "body") /\ event.v.body.t = "dict"
    THEN DictGet(event.v.body, "query") ELSE PyNone

(* what is kept of a request once it has been served *)
Served(req, r) ==
    [op |-> "lambda_handler", raised |-> r.raised, result |-> r.value,
     ran |-> r.w.ran, agent |-> r.w.agent,
     trimmed |-> \E i \in DOMAIN r.w.agent :
                    r.w.agent[i].inputText # QueryOf(req.event)]

LambdaHandler(req) ==
    \E r \in {lambda_handler(req.event, req.ext, World)} :
        /\ mw_call_history = <<>>
        /\ call_history' = r.w.call_history
        /\ last' = Served(req, r)
        /\ UNCHANGED <<pureVars, now, debug, mw_call_history, rlVars, concVars,
                       sessVars>>

Next ==
    \/ Tick
    \/ \E req \in Requests : LambdaHandler(req)

Spec == Init /\ [][Next]_vars

(***************************************************************************)
(* What the claims about the request pipeline speak of.                    *)
(***************************************************************************)
Handle(req) == lambda_handler(req.event, req.ext, World)

BodyOf(event) == IF Has(event.v, "body") THEN event.v.body ELSE PyDict(<<>>)

SessionOf(event) ==
    IF BodyOf(event).t = "dict" THEN DictGet(BodyOf(event), "session_id")
    ELSE PyNone

(* the request carries a query and a session id: invoke_agent is called *)
Complete(event) ==
    /\ BodyOf(event).t = "dict"
    /\ PyTruthy(QueryOf(event))
    /\ PyTruthy(SessionOf(event))

(* the call lambda_handler makes to invoke_agent for the request *)
InvokeOutcome(req) ==
    invoke_agent(QueryOf(req.event), SessionOf(req.event),
                 InvokeAgentKwargs(QueryOf(req.event), SessionOf(req.event)),
                 req.ext, World)

(* whether a request under session_id would be admitted in world w *)
Admits(session_id, w) ==
    ~rate_limit(InvokeAgentKwargs(PlainQuery, session_id), w).raised

Count(calls, t) == Cardinality({i \in DOMAIN calls : calls[i] = t})

(* C4: requests carrying different session ids are admitted independently: *)
(* serving a request under one session id never changes whether a request  *)
(* under another session id is admitted.                                   *)
C4_IndependentSessions ==
    \A req \in Requests : \A b \in SessionIds :
        (Complete(req.event) /\ SessionOf(req.event) # b)
            => (Admits(b, World) <=> Admits(b, Handle(req).w))

(* a validation failure: the query is not a string, is too long, or holds  *)
(* a disallowed character                                                  *)
ValidationFailure(event) ==
    /\ Complete(event)
    /\ LET query == QueryOf(event)
       IN  \/ query.t # "str"
           \/ Len(query.v) > MAX_INPUT_LENGTH
           \/ \E i \in DOMAIN query.v : ~IsAllowedChar(query.v[i])

(* C5: a failed request to lambda_handler returns status 400, with the     *)
(* message "Invalid input", exactly when the failure is a validation       *)
(* failure, and status 500 for every other failure.                        *)
C5_StatusByFailure ==
    \A req \in Requests :
        LET result == Handle(req).value.v
        IN  Has(result, "error") =>
                /\ result.status \in {400, 500}
                /\ result.status = 400 <=> ValidationFailure(req.event)
                /\ result.status = 400 => result.error = "Invalid input"

(* an undecodable byte is what the text of the decoding error is drawn from *)
MaskBytes(bytes) ==
    [k \in DOMAIN bytes |-> IF bytes[k] \in INVALID_BYTES THEN "<ff>" ELSE bytes[k]]

MaskEvent(event) ==
    IF Has(event, "chunk") /\ Has(event.chunk, "bytes")
    THEN [event EXCEPT !.chunk.bytes = MaskBytes(@)]
    ELSE event

MaskEnvelope(envelope) ==
    IF Has(envelope.v, "completion")
    THEN Envelope([i \in DOMAIN envelope.v.completion |->
                      MaskEvent(envelope.v.completion[i])])
    ELSE envelope

(* two collaborator outcomes alike in all but the text of the exception *)
SameButText(o1, o2) ==
    /\ o1.raised = o2.raised
    /\ IF o1.raised THEN o1.exc = o2.exc
       ELSE MaskEnvelope(o1.value) = MaskEnvelope(o2.value)

Failed500(r) ==
    ~r.raised /\ Has(r.value.v, "error") /\ r.value.v.status = 500

(* C6: two requests that fail with status 500 and differ only in the text  *)
(* of the underlying exception get identical responses.                    *)
C6_NoExceptionText ==
    \A ext1 \in Exts : \A ext2 \in Exts :
        LET r1 == Handle(Request(PlainEvent, ext1))
            r2 == Handle(Request(PlainEvent, ext2))
        IN  ( /\ SameButText(ext1.aliases, ext2.aliases)
              /\ SameButText(ext1.invoke, ext2.invoke)
              /\ Failed500(r1)
              /\ Failed500(r2) )
                => r1.value = r2.value

(* C7: no exception propagates to the caller of a guarded operation:       *)
(* neither lambda_handler nor invoke_agent raises, whatever an inner stage *)
(* (validation, rate limiting, the wrapped operation) does.                *)
C7_NeverRaises ==
    \A req \in Requests :
        /\ ~Handle(req).raised
        /\ Complete(req.event) => ~InvokeOutcome(req).raised

(* the stages by the names they are recorded under: error containment,     *)
(* audit logging, input validation, rate limiting, the wrapped operation   *)
STAGE_ORDER ==
    <<"error_handler", "audit_log", "sanitize_input", "rate_limit", "invoke_agent">>

StageIndex(name) == CHOOSE i \in DOMAIN STAGE_ORDER : STAGE_ORDER[i] = name

InStageOrder(ran) ==
    \A i \in DOMAIN ran : \A j \in DOMAIN ran :
        i < j => StageIndex(ran[i]) < StageIndex(ran[j])

(* C8: the stages of invoke_agent run as error containment, audit logging, *)
(* input validation, rate limiting, wrapped operation, so a request whose  *)
(* input validation rejects adds no timestamp to any rate window.          *)
C8_StageOrder ==
    \A req \in Requests :
        Complete(req.event) =>
            LET out == InvokeOutcome(req)
            IN  /\ InStageOrder(out.w.ran)
                /\ Rejected(sanitize_input(QueryOf(req.event))) =>
                       \A c \in DOMAIN out.w.call_history :
                           Count(out.w.call_history[c], now)
                               <= Count(Window(call_history, c), now)

(* text is raw without its leading and trailing whitespace *)
IsTrimOf(text, raw) ==
    /\ text # <<>>
    /\ ~IsSpace(text[1])
    /\ ~IsSpace(text[Len(text)])
    /\ \E k \in 0..Len(raw) :
          /\ k + Len(text) <= Len(raw)
          /\ SubSeq(raw, k + 1, k + Len(text)) = text
          /\ \A m \in 1..k : IsSpace(raw[m])
          /\ \A m \in (k + Len(text) + 1)..Len(raw) : IsSpace(raw[m])

Before(ran, first, second) ==
    \E i \in DOMAIN ran : \E j \in DOMAIN ran :
        i < j /\ ran[i] = first /\ ran[j] = second

(* C9: the agent is called only for a request the rate limiter admitted    *)
(* (its window had room and the call was recorded) and whose query         *)
(* sanitize accepted, and the text it is given is the query trimmed, never *)
(* empty.                                                                  *)
C9_AgentCall ==
    \A req \in Requests :
        LET out == Handle(req)
            query == QueryOf(req.event)
            c == CallerId(InvokeAgentKwargs(query, SessionOf(req.event)))
        IN  \A i \in DOMAIN out.w.agent :
                /\ Len(LiveWindow(Window(call_history, c), now)) < MaxCalls
                /\ Count(out.w.call_history[c], now)
                       = Count(Window(call_history, c), now) + 1
                /\ Before(out.w.ran, "rate_limit", "invoke_agent")
                /\ Before(out.w.ran, "sanitize_input", "invoke_agent")
                /\ query.t = "str"
                /\ Len(query.v) <= MAX_INPUT_LENGTH
                /\ \A k \in DOMAIN query.v : IsAllowedChar(query.v[k])
                /\ out.w.agent[i].inputText.t = "str"
                /\ IsTrimOf(out.w.agent[i].inputText.v, query.v)

(* a served request that reached the agent with text trimmed from the query *)
C9_Witness ==
    /\ last.op = "lambda_handler"
    /\ last.agent # <<>>
    /\ last.trimmed
    /\ Has(last.result.v, "answer")

(***************************************************************************)
(* SpecReducer: get_agent_response applied to completion streams built an  *)
(* event at a time.  The events are chunks (plain, of a two-byte           *)
(* character, cut inside a character, cited with and without a URI) and    *)
(* traces (with two queries that can be extracted, with one that cannot,   *)
(* and of another observation type).                                       *)
(***************************************************************************)
MaxEvents == 3

OTHER_URI == <<"s", "3", ":", "/", "/", "b", "/", "j">>

SELECT_STAR == <<"S", "E", "L", "E", "C", "T", " ", "*">>

SELECT_FROM == <<"S", "E", "L", "E", "C", "T", " ", "*", " ", "F", "R", "O", "M">>

SELECT_NAME == <<"S", "E", "L", "E", "C", "T", " ", "x">>

OtherTrace ==
    [trace |->
        [trace |->
            [orchestrationTrace |->
                [observation |-> [type |-> "FINISH"]]]]]

(* a chunk whose one citation retrieved the references *)
ReferencedChunk(bytes, references) ==
    [chunk |->
        [bytes |-> bytes,
         attribution |-> [citations |-> <<[retrievedReferences |-> references]>>]]]

StreamEvents ==
    {Chunk(<<"H">>), Chunk(<<"i">>),
     ReferencedChunk(<<"f">>,
         <<[content |-> [text |-> <<"p">>]],
           [location |-> [s3Location |-> [uri |-> OTHER_URI]]]>>),
     ReferencedChunk(<<"g">>,
         <<[content |-> [text |-> <<"q">>]],
           [content |-> [text |-> <<"p", "q">>]]>>),
     Chunk(<<LEAD_BYTE, CONTINUATION_BYTE>>), Chunk(<<"H", LEAD_BYTE>>),
     CitedChunk(<<"c">>, SOURCE_URI), CitedChunk(<<"d">>, OTHER_URI),
     CitedChunk(<<"e">>, <<>>),
     ActionGroupTrace(Append(SELECT_STAR, "\n")),
     ActionGroupTrace(Append(SELECT_FROM, "\n")),
     ActionGroupTrace(Append(SELECT_NAME, "\n")),
     OtherTrace}

(* the response of the agent service: with the stream under "completion",  *)
(* or without that key                                                     *)
StreamResponse(events, complete) ==
    IF complete THEN Envelope(events) ELSE PyDict([sessionId |-> S1])

AddEvent(e) ==
    /\ ~reduced.done
    /\ Len(stream) < MaxEvents
    /\ stream' = Append(stream, e)
    /\ UNCHANGED <<reduced, queryVars, resolverVars, sanitizerVars, extractVars,
                   actionVars, auditVars, restVars>>

Reduce(complete) ==
    /\ ~reduced.done
    /\ reduced' = [done |-> TRUE, complete |-> complete,
                   outcome |-> get_agent_response(
                                   StreamResponse(stream, complete), World)]
    /\ UNCHANGED <<stream, queryVars, resolverVars, sanitizerVars, extractVars,
                   actionVars, auditVars, restVars>>

NextReducer ==
    \/ \E e \in StreamEvents : AddEvent(e)
    \/ \E complete \in BOOLEAN : Reduce(complete)

SpecReducer == Init /\ [][NextReducer]_vars

(* the stream was reduced and get_agent_response returned *)
Reduced == reduced.done /\ reduced.complete /\ ~reduced.outcome.raised

HasBytes(event) == Has(event, "chunk") /\ GetOr(event.chunk, "bytes", <<>>) # <<>>

HasCitations(event) == Has(event, "chunk") /\ Has(event.chunk, "attribution")

RECURSIVE ChunkPayloads(_)
(* the decoded payloads of the chunk events, concatenated in stream order *)
ChunkPayloads(events) ==
    IF events = <<>> THEN <<>>
    ELSE (IF HasBytes(Head(events)) THEN Decode(Head(events).chunk.bytes)
          ELSE <<>>) \o ChunkPayloads(Tail(events))

(* C13: whenever get_agent_response returns, the answer text is the        *)
(* decoded payloads of all the chunk events concatenated in stream order,  *)
(* whatever citations and traces the stream holds; and a stream without    *)
(* citations and traces gives an empty source list.                        *)
C13_Accumulation ==
    Reduced =>
        /\ reduced.outcome.value[1] = ChunkPayloads(stream)
        /\ (\A i \in DOMAIN stream :
                ~HasCitations(stream[i]) /\ ~Has(stream[i], "trace"))
              => reduced.outcome.value[3] = <<>>

(* a reduced stream of a chunk, a trace and a cited chunk: both chunks are *)
(* in the answer                                                           *)
C13_Witness ==
    /\ Reduced
    /\ Len(stream) = 3
    /\ HasBytes(stream[1]) /\ ~HasCitations(stream[1])
    /\ Has(stream[2], "trace")
    /\ HasCitations(stream[3])
    /\ Len(reduced.outcome.value[1]) = 2

RECURSIVE Flatten(_)
Flatten(seqs) == IF seqs = <<>> THEN <<>> ELSE Head(seqs) \o Flatten(Tail(seqs))

(* the non-empty s3Location URIs an event cites, in order of appearance *)
CitedUris(event) ==
    LET citations ==
            IF HasCitations(event)
            THEN GetOr(event.chunk.attribution, "citations", <<>>) ELSE <<>>
        Uri(reference) ==
            IF Has(reference, "location") /\ Has(reference.location, "s3Location")
            THEN GetOr(reference.location.s3Location, "uri", <<>>) ELSE <<>>
        OfCitation(citation) ==
            LET references == GetOr(citation, "retrievedReferences", <<>>)
            IN  Flatten([i \in DOMAIN references |->
                            IF Uri(references[i]) # <<>>
                            THEN <<Uri(references[i])>> ELSE <<>>])
    IN  Flatten([i \in DOMAIN citations |-> OfCitation(citations[i])])

(* the queries extracted from the stream's action-group outputs, in order *)
Extractions(events) ==
    LET Extracted(event) ==
            IF Has(event, "trace") /\ ActionGroupOutput(event.trace) # <<>>
                 /\ PyTruthy(extract_sql_query(ActionGroupOutput(event.trace)))
            THEN <<extract_sql_query(ActionGroupOutput(event.trace)).v>>
            ELSE <<>>
    IN  Flatten([i \in DOMAIN events |-> Extracted(events[i])])

(* C14: whenever get_agent_response returns, the source list is the one    *)
(* query extracted from the last action-group trace that yields a query,   *)
(* wherever the traces stand among the chunks and whatever URIs were       *)
(* cited; and when no trace yields a query it is the non-empty cited URIs  *)
(* in order of appearance, duplicates kept.                                *)
C14_Sources ==
    Reduced =>
        LET queries == Extractions(stream)
        IN  reduced.outcome.value[3] =
                IF queries # <<>> THEN <<queries[Len(queries)]>>
                ELSE Flatten([i \in DOMAIN stream |-> CitedUris(stream[i])])

(* a trace, a cited chunk, then a trace with another query: the last query *)
(* alone is the source list                                                *)
C14_Witness ==
    /\ Reduced
    /\ Len(Extractions(stream)) = 2
    /\ Extractions(stream)[1] # Extractions(stream)[2]
    /\ CitedUris(stream[2]) # <<>>
    /\ reduced.outcome.value[3] = <<Extractions(stream)[2]>>

(* the same URI cited twice and no trace: both are kept *)
C14_WitnessUris ==
    /\ Reduced
    /\ Extractions(stream) = <<>>
    /\ reduced.outcome.value[3] = <<SOURCE_URI, SOURCE_URI>>

(* C15: when the agent's stream is reduced to cited URIs, the "source" of  *)
(* lambda_handler's result is what source_link makes of them; when it is   *)
(* reduced to the one extracted query, "source" is that query unchanged.   *)
C15_Routing ==
    \A req \in Requests :
        LET agent == InvokeOutcome(req)
        IN  (/\ Complete(req.event)
             /\ ~agent.raised
             /\ agent.value.t = "dict"
             /\ Has(agent.value.v, "completion"))
            => LET processed == get_agent_response(agent.value, agent.w)
                   sources == processed.value[3]
                   out == Handle(req)
               IN  ~processed.raised =>
                       /\ Has(out.value.v, "source")
                       /\ out.value.v.source =
                              IF Extractions(agent.value.v.completion) # <<>>
                              THEN sources[1]
                              ELSE source_link(sources, req.ext.s3,
                                               processed.w).value

(* C16: when what the agent call hands to get_agent_response has no        *)
(* "completion", get_agent_response raises ValueError before its try       *)
(* block: nothing is logged and nothing is returned; and lambda_handler    *)
(* returns a failure response with status 500.                             *)
C16_MissingCompletion ==
    \A req \in Requests :
        LET agent == InvokeOutcome(req)
        IN  (/\ Complete(req.event)
             /\ ~agent.raised
             /\ ~Has(agent.value.v, "completion"))
            => LET processed == get_agent_response(agent.value, agent.w)
                   out == Handle(req)
               IN  /\ processed.raised
                   /\ processed.exc = "ValueError"
                   /\ processed.msg = "No completion found in response"
                   /\ processed.w = agent.w
                   /\ ~out.raised
                   /\ DictGet(out.value, "status") = 500
                   /\ ~Has(out.value.v, "answer")

(* a served request whose agent answered without a completion stream *)
C16_Witness ==
    /\ last.op = "lambda_handler"
    /\ last.agent # <<>>
    /\ ~last.raised
    /\ DictGet(last.result, "status") = 500
    /\ DictGet(last.result, "details") = "No completion found in response"

(***************************************************************************)
(* SpecQuery: validate_sql_query applied to query texts put together from  *)
(* pieces (keywords in both cases, stopwords, an identifier, a literal,    *)
(* punctuation) and to the two queries the documentation gives.            *)
(***************************************************************************)
MaxPieces == 3

FROM_WORD == <<"F", "R", "O", "M">>

QueryPieces ==
    {SELECT_WORD, <<"s", "e", "l", "e", "c", "t">>, FROM_WORD,
     <<"D", "R", "O", "P">>, <<"t", "h", "e">>, <<"o", "r">>, <<"x">>, <<"1">>,
     <<" ">>, <<"*">>, <<";">>, <<"-">>, <<"/">>}

(* "SELECT name FROM users WHERE id = 1" *)
IDENTIFIER_QUERY ==
    SELECT_WORD \o <<" ", "n", "a", "m", "e", " ">> \o FROM_WORD
        \o <<" ", "u", "s", "e", "r", "s", " ", "W", "H", "E", "R", "E", " ",
             "i", "d", " ", "=", " ", "1">>

(* "SELECT * FROM users; DROP TABLE users" *)
STACKED_QUERY ==
    SELECT_WORD \o <<" ", "*", " ">> \o FROM_WORD
        \o <<" ", "u", "s", "e", "r", "s", ";", " ", "D", "R", "O", "P", " ",
             "T", "A", "B", "L", "E", " ", "u", "s", "e", "r", "s">>

DocumentedQueries == {IDENTIFIER_QUERY, STACKED_QUERY}

AddPiece(piece) ==
    /\ ~sql_checked.done
    /\ Len(sql_text) < MaxPieces
    /\ sql_text' = Append(sql_text, piece)
    /\ UNCHANGED <<sql_checked, reducerVars, resolverVars, sanitizerVars, extractVars,
                   actionVars, auditVars, restVars>>

TakeQuery(query) ==
    /\ ~sql_checked.done
    /\ sql_text = <<>>
    /\ sql_text' = <<query>>
    /\ UNCHANGED <<sql_checked, reducerVars, resolverVars, sanitizerVars, extractVars,
                   actionVars, auditVars, restVars>>

(* the query text: the pieces joined *)
QueryText == Flatten(sql_text)

ValidateQuery ==
    /\ ~sql_checked.done
    /\ sql_checked' =
           [done |-> TRUE,
            lambda |-> validate_sql_query(QueryText),
            app |-> security_config_validate_sql_query(QueryText)]
    /\ UNCHANGED <<sql_text, reducerVars, resolverVars, sanitizerVars, extractVars,
                   actionVars, auditVars, restVars>>

NextQuery ==
    \/ \E piece \in QueryPieces : AddPiece(piece)
    \/ \E query \in DocumentedQueries : TakeQuery(query)
    \/ ValidateQuery

SpecQuery == Init /\ [][NextQuery]_vars

(* the two lists as the documentation gives them *)
DocumentedAllowList ==
    {SELECT_WORD, FROM_WORD, <<"W", "H", "E", "R", "E">>, <<"A", "N", "D">>,
     <<"O", "R">>, <<"I", "N">>, <<"L", "I", "K", "E">>,
     <<"L", "I", "M", "I", "T">>, <<"O", "R", "D", "E", "R">>, <<"B", "Y">>,
     <<"A", "S", "C">>, <<"D", "E", "S", "C">>, <<"G", "R", "O", "U", "P">>,
     <<"H", "A", "V", "I", "N", "G">>, <<"J", "O", "I", "N">>}

DocumentedStopwords ==
    {<<"A", "N", "D">>, <<"O", "R">>, <<"I", "N">>, <<"T", "H", "E">>,
     <<"A", "S">>, <<"O", "N">>}

(* the text holds none of ";", "--", "/*" *)
FreeOfPatterns(text) ==
    \A i \in DOMAIN text :
        /\ text[i] # ";"
        /\ i < Len(text) => <<text[i], text[i + 1]>> \notin {<<"-", "-">>, <<"/", "*">>}

(* C17: both copies of validate_sql_query return true exactly when the     *)
(* text holds none of ";", "--", "/*" and every word of the upper-cased    *)
(* text that is not a stopword is on the allow-list; a text with ";" is    *)
(* rejected.                                                               *)
C17_Validate ==
    sql_checked.done =>
        LET accepted ==
                /\ FreeOfPatterns(QueryText)
                /\ \A word \in Words(Upper(QueryText)) :
                       word \in DocumentedStopwords \/ word \in DocumentedAllowList
        IN  /\ sql_checked.lambda = accepted
            /\ sql_checked.app = accepted
            /\ Contains(QueryText, <<";">>) => ~sql_checked.lambda

(* a text of allow-listed words alone, rejected for its ";" *)
C17_Witness ==
    /\ sql_checked.done
    /\ ~sql_checked.lambda
    /\ ~sql_checked.app
    /\ Len(sql_text) = 3
    /\ Contains(QueryText, <<";">>)
    /\ Words(Upper(QueryText)) \subseteq DocumentedAllowList

(* a text with a stopword off the allow-list, accepted in lower case *)
C17_WitnessAccepted ==
    /\ sql_checked.done
    /\ sql_checked.lambda
    /\ sql_checked.app
    /\ <<"t", "h", "e">> \in Words(QueryText)
    /\ <<"s", "e", "l", "e", "c", "t">> \in Words(QueryText)

(* the SQL keywords of the inputs that are not on the allow-list *)
OtherSqlKeywords == {<<"D", "R", "O", "P">>, <<"T", "A", "B", "L", "E">>}

(* C18: validate_sql_query accepts "SELECT name FROM users WHERE id = 1",  *)
(* and accepts every text without ";", "--", "/*" whose SQL keywords are   *)
(* on the allow-list, whatever identifiers and literals it holds.          *)
C18_Permissive ==
    sql_checked.done =>
        /\ QueryText = IDENTIFIER_QUERY => sql_checked.lambda /\ sql_checked.app
        /\ (/\ FreeOfPatterns(QueryText)
            /\ Words(Upper(QueryText)) \cap OtherSqlKeywords = {})
              => sql_checked.lambda /\ sql_checked.app

(***************************************************************************)
(* SpecResolver: source_link applied to lists of sources put together a    *)
(* source at a time, over an object store that holds documents of every    *)
(* kind: two with the same title and url, ones differing in the title or   *)
(* the url, text that is not JSON, JSON that is not an object, an object   *)
(* without "Url", with a number as "Url", with a list as "Topic", and with *)
(* a url that is not http(s).                                              *)
(***************************************************************************)
MaxSources == 3

S3Uri(obj_key) == S3_SCHEME \o <<"b", "/">> \o obj_key

OTHER_URL == <<"h", "t", "t", "p", "s", ":", "/", "/", "v">>

FTP_URL == <<"f", "t", "p", ":", "/", "/", "u">>

JsonObject(fields) == [kind |-> "json", content |-> PyDict(fields)]

Documents ==
    [k |-> JsonObject([Url |-> PyStr(SOURCE_URL), Topic |-> PyStr(<<"T">>)]),
     j |-> JsonObject([Url |-> PyStr(SOURCE_URL), Topic |-> PyStr(<<"T">>)]),
     t |-> JsonObject([Url |-> PyStr(SOURCE_URL), Topic |-> PyStr(<<"T", "2">>)]),
     v |-> JsonObject([Url |-> PyStr(OTHER_URL), Topic |-> PyStr(<<"T">>)]),
     n |-> [kind |-> "notjson", msg |-> "Expecting value"],
     l |-> [kind |-> "json", content |-> [t |-> "list", v |-> <<PyInt(<<"1">>)>>]],
     o |-> JsonObject([Topic |-> PyStr(<<"T">>)]),
     i |-> JsonObject([Url |-> PyInt(<<"5">>), Topic |-> PyStr(<<"T">>)]),
     h |-> JsonObject([Url |-> PyStr(OTHER_URL),
                       Topic |-> [t |-> "list", v |-> <<PyStr(<<"T">>)>>]]),
     f |-> JsonObject([Url |-> PyStr(FTP_URL), Topic |-> PyStr(<<"F">>)])]

DocumentStore ==
    [key \in {<<(<<"b">>), (<<name>>)>> : name \in DOMAIN Documents} |->
        Documents[key[2][1]]]

(* a source per document, and one that is not in the store, one without a  *)
(* key, one that is no s3 URI                                              *)
SourceUris ==
    {S3Uri(<<name>>) : name \in DOMAIN Documents}
        \cup {S3Uri(<<"m">>), S3_SCHEME \o <<"b">>, SOURCE_URL}

AddSource(uri) ==
    /\ ~resolved.done
    /\ Len(source_list) < MaxSources
    /\ source_list' = Append(source_list, uri)
    /\ UNCHANGED <<resolved, reducerVars, queryVars, sanitizerVars, extractVars,
                   actionVars, auditVars, restVars>>

Resolve ==
    /\ ~resolved.done
    /\ resolved' = [done |-> TRUE,
                    outcome |-> source_link(source_list, DocumentStore, World)]
    /\ UNCHANGED <<source_list, reducerVars, queryVars, sanitizerVars, extractVars,
                   actionVars, auditVars, restVars>>

NextResolver ==
    \/ \E uri \in SourceUris : AddSource(uri)
    \/ Resolve

SpecResolver == Init /\ [][NextResolver]_vars

(* the (title, url) pairs the store gives for the sources, in order *)
ObtainedPairs ==
    ResolveSources([w |-> World, list |-> <<>>], source_list, DocumentStore).list

IsText(x) == x.t = "str"

(* a pair of texts whose url is http(s) *)
Presentable(pair) == IsText(pair[1]) /\ IsText(pair[2]) /\ IsHttpUrl(pair[2].v)

(* the positions of the first occurrences *)
FirstSeen(pairs) ==
    {i \in DOMAIN pairs : \A j \in 1..(i - 1) : pairs[j] # pairs[i]}

RECURSIVE InOrder(_, _)
(* the members of the set of positions S of pairs, as a sequence *)
InOrder(pairs, S) ==
    IF S = {} THEN <<>>
    ELSE <<pairs[Least(S)]>> \o InOrder(pairs, S \ {Least(S)})

(* the entries of the distinct pairs, each where it stands among them *)
Entries(distinct) ==
    Flatten([i \in DOMAIN distinct |->
                IF Presentable(distinct[i])
                THEN FormatReference(i, distinct[i][1], distinct[i][2])
                ELSE <<>>])

(* C19: for every list of sources, the output of source_link is the       *)
(* entries of the distinct pairs obtained from the store, in order of      *)
(* first occurrence: one entry for sources that give the same title and    *)
(* url, an entry each for pairs that differ in the title or in the url.    *)
C19_Dedup ==
    resolved.done
        => resolved.outcome.value
               = Entries(InOrder(ObtainedPairs, FirstSeen(ObtainedPairs)))

(* the same, for lists whose pairs are all pairs of texts *)
C19_DedupOfTexts ==
    (resolved.done /\ \A i \in DOMAIN ObtainedPairs :
                          IsText(ObtainedPairs[i][1]) /\ IsText(ObtainedPairs[i][2]))
        => resolved.outcome.value
               = Entries(InOrder(ObtainedPairs, FirstSeen(ObtainedPairs)))

(* two sources with the same title and url around one with another title:  *)
(* two entries                                                             *)
C19_Witness ==
    /\ resolved.done
    /\ Len(ObtainedPairs) = 3
    /\ ObtainedPairs[1] = ObtainedPairs[3]
    /\ ObtainedPairs[1][1] # ObtainedPairs[2][1]
    /\ ObtainedPairs[1][2] = ObtainedPairs[2][2]
    /\ resolved.outcome.value
           = FormatReference(1, ObtainedPairs[1][1], ObtainedPairs[1][2])
               \o FormatReference(2, ObtainedPairs[2][1], ObtainedPairs[2][2])

(* "[title](url)" *)
Link(pair) == <<"[">> \o pair[1].v \o <<"]", "(">> \o pair[2].v \o <<")">>

(* C20: source_link returns a string and never raises, and every source    *)
(* that gives a title and an http(s) url is in the output whatever the     *)
(* other sources of the list are.                                          *)
C20_NonFatal ==
    resolved.done =>
        /\ ~resolved.outcome.raised
        /\ \A i \in DOMAIN ObtainedPairs :
               Presentable(ObtainedPairs[i])
                   => Contains(resolved.outcome.value, Link(ObtainedPairs[i]))

(***************************************************************************)
(* SpecSanitizer: the input validation applied to user inputs put together *)
(* a character at a time (a letter, whitespace, allowed punctuation, and a *)
(* character outside the allowed class), up to one character more than the *)
(* limit, and to inputs that are not strings.                              *)
(***************************************************************************)
InputAlphabet == {"a", " ", "\n", ";", "~"}

OtherInputs == {PyNone, PyInt(<<"5">>)}

AddChar(c) ==
    /\ ~sanitized.done
    /\ raw_input.t = "str"
    /\ Len(raw_input.v) <= MAX_INPUT_LENGTH
    /\ raw_input' = PyStr(Append(raw_input.v, c))
    /\ UNCHANGED <<sanitized, reducerVars, queryVars, resolverVars,
                   extractVars, actionVars, auditVars, restVars>>

TakeInput(value) ==
    /\ ~sanitized.done
    /\ raw_input = PyStr(<<>>)
    /\ raw_input' = value
    /\ UNCHANGED <<sanitized, reducerVars, queryVars, resolverVars,
                   extractVars, actionVars, auditVars, restVars>>

(* the two copies of sanitize_input, and the web application's             *)
(* validate_input stage followed by the sanitize step of invoke_agent      *)
SanitizeInput ==
    /\ ~sanitized.done
    /\ \E stage \in {mw_validate_input(raw_input)} :
          sanitized' =
              [done |-> TRUE,
               lambda |-> sanitize_input(raw_input),
               app |-> security_config_sanitize_input(raw_input),
               stage |-> stage,
               again |-> IF stage.raised THEN PyNone
                         ELSE sanitize_input(stage.handed)]
    /\ UNCHANGED <<raw_input, reducerVars, queryVars, resolverVars,
                   extractVars, actionVars, auditVars, restVars>>

NextSanitizer ==
    \/ \E c \in InputAlphabet : AddChar(c)
    \/ \E value \in OtherInputs : TakeInput(value)
    \/ SanitizeInput

SpecSanitizer == Init /\ [][NextSanitizer]_vars

(* what the documentation has sanitize reject *)
MustReject(raw) ==
    \/ raw.t # "str"
    \/ Len(raw.v) > MAX_INPUT_LENGTH
    \/ \E i \in DOMAIN raw.v : ~IsAllowedChar(raw.v[i])

(* C21: sanitize_input rejects (returns None) an input that is not a       *)
(* string, is longer than the limit before trimming, or holds a character  *)
(* outside the allowed class; for every other input it returns the input   *)
(* without its leading and trailing whitespace.                            *)
C21_Sanitize ==
    sanitized.done =>
        LET expected == IF MustReject(raw_input) THEN PyNone
                        ELSE PyStr(Strip(raw_input.v))
        IN  sanitized.lambda = expected /\ sanitized.app = expected

(* C21 as amended: the empty string is rejected as well; every other      *)
(* input of allowed characters within the limit is returned trimmed.       *)
C21_SanitizeNonEmpty ==
    sanitized.done =>
        LET expected ==
                IF MustReject(raw_input) \/ raw_input = PyStr(<<>>) THEN PyNone
                ELSE PyStr(Strip(raw_input.v))
        IN  sanitized.lambda = expected /\ sanitized.app = expected

(* an input as long as the limit allows, whitespace at its end, returned   *)
(* trimmed by both copies                                                  *)
C21_Witness ==
    /\ sanitized.done
    /\ raw_input.t = "str"
    /\ Len(raw_input.v) = MAX_INPUT_LENGTH
    /\ IsSpace(raw_input.v[Len(raw_input.v)])
    /\ sanitized.lambda.t = "str"
    /\ Len(sanitized.lambda.v) = MAX_INPUT_LENGTH - 1
    /\ sanitized.app = sanitized.lambda

(* C29: the value the validate_input stage hands to the wrapped function   *)
(* is accepted by sanitize_input and returned by it unchanged, so that the *)
(* sanitize step of invoke_agent does not reject it.                       *)
C29_StaysValid ==
    (sanitized.done /\ ~sanitized.stage.raised) =>
        /\ sanitized.again = sanitized.stage.handed
        /\ ~Rejected(sanitized.again)

(* C23: for a request whose body is not a mapping, or lacks a non-empty    *)
(* query or a non-empty session id, lambda_handler returns a failure       *)
(* response and invoke_agent is not entered: the rate limiter's history is *)
(* as before, nothing of invoke_agent ran and the agent was not called.    *)
C23_InputContract ==
    \A req \in Requests :
        ~Complete(req.event) =>
            LET out == Handle(req)
            IN  /\ ~out.raised
                /\ Has(out.value.v, "error")
                /\ ~Has(out.value.v, "answer")
                /\ out.w.call_history = call_history
                /\ out.w.agent = <<>>
                /\ \A i \in DOMAIN out.w.ran :
                       out.w.ran[i] \notin {"rate_limit", "sanitize_input",
                                            "invoke_agent"}

(* a served request without its parameters, after which the rate limiter   *)
(* has still recorded nothing                                              *)
C23_Witness ==
    /\ last.op = "lambda_handler"
    /\ ~last.raised
    /\ last.result.t = "dict"
    /\ Has(last.result.v, "details")
    /\ last.result.v.details = "Missing required parameters"
    /\ last.agent = <<>>
    /\ call_history = <<>>

(***************************************************************************)
(* SpecAudit: the audit_log wrappers of index.py and of middleware.py      *)
(* around a function that returns or raises, called with arguments put     *)
(* together one at a time, with the environment variable DEBUG set or not. *)
(***************************************************************************)
MaxArgs == 2

ArgumentValues == {PyStr(<<"a">>), PyStr(<<"b">>), PyInt(<<"5">>)}

AuditCopies == {"index", "middleware"}

InitAudit == debug \in BOOLEAN /\ Constructed

AddArgument(value) ==
    /\ ~audit_entries.done
    /\ Len(audit_call.args) < MaxArgs
    /\ audit_call' = [audit_call EXCEPT !.args = Append(@, value)]
    /\ UNCHANGED <<audit_entries, reducerVars, queryVars, resolverVars,
                   sanitizerVars, extractVars, actionVars, restVars>>

AddKeyword(session_id) ==
    /\ ~audit_entries.done
    /\ audit_call.kwargs = NoKwargs
    /\ audit_call' = [audit_call EXCEPT !.kwargs = SessionKwargs(session_id)]
    /\ UNCHANGED <<audit_entries, reducerVars, queryVars, resolverVars,
                   sanitizerVars, extractVars, actionVars, restVars>>

(* the wrapped function returns, or raises *)
AuditedFunc(w, fails) ==
    IF fails THEN Raise(w, "Exception", "failed") ELSE Return(w, PyNone)

(* the wrapper around the function: what it leaves in the log *)
AuditedCall(copy, call, fails, w) ==
    IF copy = "index"
    THEN audit_log_after("func",
             AuditedFunc(audit_log_before("func", w), fails))
    ELSE mw_audit_log_after("func",
             AuditedFunc(mw_audit_log_before("func", call.args, call.kwargs, w),
                         fails))

Audit(copy, fails) ==
    /\ ~audit_entries.done
    /\ audit_entries' =
           [done |-> TRUE, copy |-> copy, fails |-> fails,
            log |-> AuditedCall(copy, audit_call, fails, World).w.log]
    /\ UNCHANGED <<audit_call, reducerVars, queryVars, resolverVars,
                   sanitizerVars, extractVars, actionVars, restVars>>

NextAudit ==
    \/ \E value \in ArgumentValues : AddArgument(value)
    \/ \E session_id \in SessionIds : AddKeyword(session_id)
    \/ \E copy \in AuditCopies, fails \in BOOLEAN : Audit(copy, fails)

SpecAudit == InitAudit /\ [][NextAudit]_vars

(* every call the specification can make *)
AuditCalls ==
    {[args |-> args, kwargs |-> kwargs] :
        args \in UNION {[1..n -> ArgumentValues] : n \in 0..MaxArgs},
        kwargs \in {NoKwargs} \cup {SessionKwargs(id) : id \in SessionIds}}

(* the entry holds the arguments of the call *)
HoldsArguments(entry, call) ==
    /\ entry.arg.t = "call"
    /\ entry.arg.v.args = call.args
    /\ entry.arg.v.kwargs = call.kwargs

(* C24: the audit wrapper logs one entry before the wrapped function and   *)
(* one after it returns; with DEBUG unset the entries are the same         *)
(* whatever the arguments of the call, the first being the placeholder;    *)
(* and an entry holds the arguments only when DEBUG is set.                *)
C24_Redaction ==
    audit_entries.done =>
        LET log == audit_entries.log
        IN  /\ Len(log) = IF audit_entries.fails THEN 1 ELSE 2
            /\ ~audit_entries.fails =>
                   log[2] = LogEntry("Audit: completed successfully: ",
                                     Text("func"))
            /\ ~debug =>
                   /\ log[1] = SENSITIVE_PLACEHOLDER
                   /\ \A other \in AuditCalls :
                          AuditedCall(audit_entries.copy, other,
                                      audit_entries.fails, World).w.log = log
            /\ (\E i \in DOMAIN log : HoldsArguments(log[i], audit_call))
                   => debug

(* a call with arguments and a session id, audited with DEBUG unset: the   *)
(* placeholder, then the entry of the completion                           *)
C24_Witness ==
    /\ audit_entries.done
    /\ ~debug
    /\ audit_entries.copy = "middleware"
    /\ ~audit_entries.fails
    /\ Len(audit_call.args) = MaxArgs
    /\ audit_call.kwargs # NoKwargs
    /\ audit_entries.log[1] = SENSITIVE_PLACEHOLDER
    /\ Len(audit_entries.log) = 2

(* the same call with DEBUG set: its arguments are in the first entry *)
C24_WitnessDebug ==
    /\ audit_entries.done
    /\ debug
    /\ Len(audit_call.args) = MaxArgs
    /\ HoldsArguments(audit_entries.log[1], audit_call)

(* the content texts of the references an event retrieved, in order *)
ReferenceTexts(event) ==
    LET citations ==
            IF HasCitations(event)
            THEN GetOr(event.chunk.attribution, "citations", <<>>) ELSE <<>>
        OfCitation(citation) ==
            LET references == GetOr(citation, "retrievedReferences", <<>>)
            IN  Flatten([i \in DOMAIN references |->
                            IF Has(references[i], "content")
                                 /\ Has(references[i].content, "text")
                            THEN <<references[i].content.text>> ELSE <<>>])
    IN  Flatten([i \in DOMAIN citations |-> OfCitation(citations[i])])

(* C25: whenever get_agent_response returns, the reference text is the     *)
(* content text of the last reference of the stream that has one, and is   *)
(* empty when no reference has one; it is never put together from several  *)
(* references and the traces have no part in it.                           *)
C25_LastReference ==
    Reduced =>
        LET texts == Flatten([i \in DOMAIN stream |-> ReferenceTexts(stream[i])])
        IN  reduced.outcome.value[2] =
                IF texts = <<>> THEN <<>> ELSE texts[Len(texts)]

(* a stream whose references have three different content texts, the last  *)
(* of them followed by a reference without one and by a trace              *)
C25_Witness ==
    /\ Reduced
    /\ Len(stream) = 3
    /\ Len(ReferenceTexts(stream[1])) = 2
    /\ Len(ReferenceTexts(stream[2])) = 1
    /\ ReferenceTexts(stream[2])[1] \notin Range(ReferenceTexts(stream[1]))
    /\ Has(stream[3], "trace")
    /\ reduced.outcome.value[2] = ReferenceTexts(stream[2])[1]

(***************************************************************************)
(* extract_sql_query over the texts of action-group outputs.  A text is    *)
(* put together from parts; the query is extracted from it alone and as    *)
(* the output of the one trace of a stream whose chunks cited SOURCE_URI.  *)
(***************************************************************************)
MaxParts == 4

TextParts ==
    {SELECT_WORD, <<"s", "e", "l", "e", "c", "t">>, <<" ", "*">>, <<" ", "x">>,
     <<";">>, <<" ">>, <<"\n">>, RETURNED_INFORMATION}

AddPart(part) ==
    /\ ~extracted.done
    /\ Len(trace_text) < MaxParts
    /\ trace_text' = Append(trace_text, part)
    /\ UNCHANGED <<extracted, reducerVars, queryVars, resolverVars, sanitizerVars,
                   actionVars, auditVars, restVars>>

(* the text: the parts joined *)
TraceText == Flatten(trace_text)

Extract ==
    /\ ~extracted.done
    /\ extracted' =
           [done |-> TRUE,
            value |-> extract_sql_query(TraceText),
            sources |->
                ReduceTrace([source_file_list |-> <<SOURCE_URI>>],
                            ActionGroupTrace(TraceText).trace).source_file_list]
    /\ UNCHANGED <<trace_text, reducerVars, queryVars, resolverVars, sanitizerVars,
                   actionVars, auditVars, restVars>>

NextExtract ==
    \/ \E part \in TextParts : AddPart(part)
    \/ Extract

SpecExtract == Init /\ [][NextExtract]_vars

(* C26: whatever the text, a query that extract_sql_query returns begins   *)
(* with SELECT in any case of letters and is accepted by                   *)
(* validate_sql_query; the reducer puts that query alone in the source     *)
(* list, and a trace from which no query is returned (none found, or the   *)
(* one found fails validate_sql_query) leaves the source list as it was.   *)
C26_Validated ==
    extracted.done =>
        /\ extracted.value # PyNone =>
              /\ extracted.value.t = "str"
              /\ MatchesAt(extracted.value.v, 1, SELECT_WORD)
              /\ validate_sql_query(extracted.value.v)
        /\ extracted.sources =
              IF extracted.value # PyNone THEN <<extracted.value.v>>
              ELSE <<SOURCE_URI>>

(* a query cut out of a longer text and put in the source list *)
C26_Witness ==
    /\ extracted.done
    /\ extracted.value # PyNone
    /\ Len(extracted.value.v) + Len(RETURNED_INFORMATION) < Len(TraceText)
    /\ extracted.sources = <<extracted.value.v>>

(* a text whose query is found and fails validate_sql_query: the cited URI *)
(* stays                                                                   *)
C26_WitnessRejected ==
    /\ extracted.done
    /\ extract_sql_query_unvalidated(TraceText) # PyNone
    /\ extracted.value = PyNone
    /\ extracted.sources = <<SOURCE_URI>>

(* where the text's first SELECT starts, 0 when it has none *)
FirstSelect(text) ==
    LET starts == {i \in DOMAIN text : MatchesAt(text, i, SELECT_WORD)}
    IN  IF starts = {} THEN 0 ELSE Least(starts)

(* the newlines after the SELECT at i that end the line before a line      *)
(* starting with "Returned information" (after blanks)                     *)
ReturnedLines(text, i) ==
    {j \in (i + Len(SELECT_WORD))..Len(text) :
        /\ text[j] = "\n"
        /\ \E k \in (j + 1)..Len(text) :
              /\ \A m \in (j + 1)..(k - 1) : IsSpace(text[m])
              /\ MatchesAt(text, k, RETURNED_INFORMATION)}

(* the documented candidate: from the first SELECT to just before the      *)
(* first following "Returned information" line, or to the end of the text  *)
Candidate(text) ==
    LET i == FirstSelect(text)
        lines == ReturnedLines(text, i)
        j == IF lines = {} THEN Len(text) + 1 ELSE Least(lines)
    IN  Strip(SubSeq(text, i, j - 1))

(* C27: for every text containing SELECT, extract_sql_query returns the    *)
(* candidate (trimmed) when validate_sql_query accepts it and nothing      *)
(* otherwise, where the candidate runs from the first SELECT to just       *)
(* before the first following line starting with "Returned information",   *)
(* or to the end of the text when no such line follows, whether or not the *)
(* text ends with a newline.                                               *)
C27_Extent ==
    (extracted.done /\ FirstSelect(TraceText) # 0) =>
        extracted.value =
            IF validate_sql_query(Candidate(TraceText))
            THEN PyStr(Candidate(TraceText)) ELSE PyNone

(* the entries of the pairs that are shown, numbered as they are emitted *)
Numbered(distinct) ==
    LET shown == SelectSeq(distinct, Presentable)
    IN  Flatten([k \in DOMAIN shown |->
                    FormatReference(k, shown[k][1], shown[k][2])])

(* C28: for every list of sources, the entries that source_link emits are  *)
(* numbered 1, 2, 3, ... in the order they are emitted: the k-th entry     *)
(* carries the number k, also when distinct pairs are left out because     *)
(* their url is not an http(s) url.                                        *)
C28_Consecutive ==
    resolved.done =>
        \/ resolved.outcome.value = <<>>
        \/ resolved.outcome.value
               = Numbered(InOrder(ObtainedPairs, FirstSeen(ObtainedPairs)))

(***************************************************************************)
(* The action lambda (action-lambda/index.py) under the decorators of      *)
(* middleware.py.  An event is a tagged value; the query engine is a       *)
(* collaborator whose query either returns a response (its text and its    *)
(* metadata) or raises.                                                    *)
(***************************************************************************)
UC1_PATH ==
    <<"/", "u", "c", "1">>

UC2_PATH ==
    <<"/", "u", "c", "2">>

OTHER_PATH ==
    <<"/", "z", "z">>

DOC_RETRIEVAL ==
    <<"D", "o", "c", " ", "r", "e", "t", "r", "i", "e", "v", "a", "l">>

GETTING_INFO ==
    <<"G", "e", "t", "t", "i", "n", "g", " ", "i", "n", "f", "o", " ", "f",
      "r", "o", "m", " ", "k", "n", "o", "w", "l", "e", "d", "g", "e", "b",
      "a", "s", "e", ".">>

NOT_FOUND ==
    <<"N", "o", "t", " ", "F", "o", "u", "n", "d">>

DONT_KNOW ==
    <<"I", " ", "d", "o", "n", "'", "t", " ", "k", "n", "o", "w", " ", "e",
      "n", "o", "u", "g", "h", " ", "t", "o", " ", "a", "n", "s", "w", "e",
      "r", " ", "t", "h", "i", "s", " ", "q", "u", "e", "s", "t", "i", "o",
      "n", ",", " ", "p", "l", "e", "a", "s", "e", " ", "t", "r", "y", " ",
      "t", "o", " ", "c", "l", "a", "r", "i", "f", "y", " ", "y", "o", "u",
      "r", " ", "q", "u", "e", "s", "t", "i", "o", "n", ".">>

ERROR_SOURCE ==
    <<"E", "r", "r", "o", "r">>

ERROR_ANSWER ==
    <<"A", "n", " ", "e", "r", "r", "o", "r", " ", "o", "c", "c", "u", "r",
      "r", "e", "d", " ", "p", "r", "o", "c", "e", "s", "s", "i", "n", "g",
      " ", "y", "o", "u", "r", " ", "r", "e", "q", "u", "e", "s", "t", ".">>

BODY_INDENT ==
    <<" ", " ", " ", " ", " ", " ", " ", " ", " ", " ", " ", " ">>

SOURCE_LABEL ==
    <<"S", "o", "u", "r", "c", "e", ":", " ">>

RETURNED_LABEL ==
    <<"R", "e", "t", "u", "r", "n", "e", "d", " ", "i", "n", "f", "o", "r",
      "m", "a", "t", "i", "o", "n", ":", " ">>

(* str.replace("\n", " ") *)
ReplaceNewlines(text) == [i \in DOMAIN text |-> IF text[i] = "\n" THEN " " ELSE text[i]]

(* the wrapper of error_handler (middleware.py) around an outcome *)
mw_error_handler(r) ==
    IF ~r.raised THEN r
    ELSE IF IsValueError(r.exc)
    THEN Return(safe_log(r.w, LogEntry("Validation error: ", Text(r.msg)), FALSE),
                INVALID_INPUT)
    ELSE Return(safe_log(r.w, LogEntry("Internal error: ", Text(r.msg)), FALSE),
                INTERNAL_ERROR)

(* the except branch of get_response's try block *)
ProcessingFailed(w, msg) ==
    [w |-> safe_log(w, LogEntry("Error processing request: ", Text(msg)), FALSE),
     response_code |-> 500, source |-> ERROR_SOURCE, answer |-> ERROR_ANSWER]

Processed(w, source, answer) ==
    [w |-> w, response_code |-> 200, source |-> source, answer |-> answer]

(* the try block of get_response: the output and the response code *)
ProcessEvent(event, engine, w) ==
    IF event.t # "dict"
    THEN ProcessingFailed(w, "string indices must be integers")
    ELSE IF ~Has(event.v, "apiPath") THEN ProcessingFailed(w, "'apiPath'")
    ELSE IF ~Has(event.v, "parameters") THEN ProcessingFailed(w, "'parameters'")
    ELSE IF event.v.parameters.v = <<>>
    THEN ProcessingFailed(w, "list index out of range")
    ELSE IF ~Has(event.v.parameters.v[1].v, "value")
    THEN ProcessingFailed(w, "'value'")
    ELSE LET user_input == event.v.parameters.v[1].v.value
             w1 == safe_log(w, LogEntry("Processing question: ", user_input), FALSE)
         IN  IF event.v.apiPath.v = UC2_PATH
             THEN IF engine.raised THEN ProcessingFailed(w1, engine.msg)
                  ELSE LET w2 == safe_log(w1, LogEntry("SQL query:", PyNone), TRUE)
                           metadata == engine.value.metadata
                       IN  IF ~Has(metadata, "sql_query")
                           THEN ProcessingFailed(w2, "'sql_query'")
                           ELSE Processed(
                                    safe_log(
                                        safe_log(w2,
                                            LogEntry("", PyStr(ReplaceNewlines(
                                                             metadata.sql_query))),
                                            TRUE),
                                        LogEntry("Generated response: ",
                                                 PyStr(engine.value.response)),
                                        FALSE),
                                    metadata.sql_query, engine.value.response)
             ELSE IF event.v.apiPath.v = UC1_PATH
             THEN Processed(w1, DOC_RETRIEVAL, GETTING_INFO)
             ELSE Processed(w1, NOT_FOUND, DONT_KNOW)

(* the f-string of the body *)
ResponseBody(source, answer) ==
    <<"\n">> \o BODY_INDENT \o SOURCE_LABEL \o source \o <<"\n">>
        \o BODY_INDENT \o RETURNED_LABEL \o answer \o <<"\n">> \o BODY_INDENT

(* {"application/json": {"body": body}} *)
JsonBody(body) == PyDict("application/json" :> PyDict([body |-> body]))

(* the keys action_response reads from the event, in the order it reads *)
ResponseKeys == <<"actionGroup", "apiPath", "httpMethod">>

(* the body of get_response, given what validate_input hands to it *)
get_response_body(event, engine, w) ==
    LET w0 == safe_log(safe_log(w, LogEntry("Processing event", PyNone), TRUE),
                       LogEntry("", event), FALSE)
        p == ProcessEvent(event, engine, w0)
        missing == {i \in DOMAIN ResponseKeys : ~Has(event.v, ResponseKeys[i])}
    IN  IF event.t # "dict"
        THEN Raise(p.w, "TypeError", "string indices must be integers")
        ELSE IF missing # {}
        THEN Raise(p.w, "KeyError", ResponseKeys[Least(missing)])
        ELSE Return(p.w,
                 PyDict([messageVersion |-> "1.0",
                         response |->
                             PyDict([actionGroup |-> event.v.actionGroup,
                                     apiPath |-> event.v.apiPath,
                                     httpMethod |-> event.v.httpMethod,
                                     httpStatusCode |-> p.response_code,
                                     responseBody |->
                                         JsonBody(ResponseBody(p.source,
                                                               p.answer))])]))

(* get_response as decorated: error_handler, audit_log, validate_input *)
get_response(event, engine, w) ==
    mw_error_handler(
        mw_audit_log_after("get_response",
            LET w1 == mw_audit_log_before("get_response",
                                          <<event, Text("context")>>, NoKwargs, w)
                stage == mw_validate_input(event)
            IN  IF stage.raised THEN Raise(w1, "ValueError", "Invalid input")
                ELSE get_response_body(stage.handed, engine, w1)))

ACTION_INTERNAL_ERROR ==
    PyDict([messageVersion |-> "1.0",
            response |->
                PyDict([httpStatusCode |-> 500,
                        responseBody |->
                            JsonBody(<<"An internal error occurred">>)])])

action_lambda_handler(event, engine, w) ==
    LET r == get_response(event, engine, w)
    IN  IF r.raised
        THEN Return(safe_log(r.w, LogEntry("Lambda handler error: ", Text(r.msg)),
                             FALSE),
                    ACTION_INTERNAL_ERROR)
        ELSE r

(***************************************************************************)
(* The action lambda over events put together key by key, and over events  *)
(* that are no mapping.                                                    *)
(***************************************************************************)
Parameter(fields) == [t |-> "list", v |-> <<PyDict(fields)>>]

EventValues ==
    [apiPath |-> {PyStr(UC1_PATH), PyStr(UC2_PATH), PyStr(OTHER_PATH)},
     parameters |->
         {[t |-> "list", v |-> <<>>],
          Parameter([name |-> PyStr(<<"q">>), value |-> PyStr(<<"h", "i">>)]),
          Parameter([name |-> PyStr(<<"q">>)])},
     actionGroup |-> {PyStr(<<"g">>)},
     httpMethod |-> {PyStr(<<"G", "E", "T">>), PyStr(<<"P", "O", "S", "T">>)}]

OtherEvents == {PyStr(<<"h", "i">>), PyStr(<<" ">>), PyInt(<<"5">>)}

Engines ==
    {ExtReturn([response |-> <<"4", "2">>,
                metadata |-> [sql_query |-> SELECT_STAR]]),
     ExtReturn([response |-> <<"4", "2">>, metadata |-> <<>>]),
     ExtRaise("RuntimeError", "engine failed")}

PutKey(key, value) ==
    /\ ~action_response.done
    /\ action_event.t \in {"none", "dict"}
    /\ ~Has(action_event.v, key)
    /\ action_event' = PyDict((key :> value) @@ action_event.v)
    /\ UNCHANGED <<action_response, reducerVars, queryVars, resolverVars,
                   sanitizerVars, extractVars, auditVars, restVars>>

TakeEvent(event) ==
    /\ ~action_response.done
    /\ action_event = NoEvent
    /\ action_event' = event
    /\ UNCHANGED <<action_response, reducerVars, queryVars, resolverVars,
                   sanitizerVars, extractVars, auditVars, restVars>>

ActionLambda(engine) ==
    /\ ~action_response.done
    /\ action_response' =
           [done |-> TRUE, engine |-> engine,
            outcome |-> action_lambda_handler(action_event, engine, World)]
    /\ UNCHANGED <<action_event, reducerVars, queryVars, resolverVars,
                   sanitizerVars, extractVars, auditVars, restVars>>

NextAction ==
    \/ \E key \in DOMAIN EventValues : \E value \in EventValues[key] :
          PutKey(key, value)
    \/ \E event \in OtherEvents : TakeEvent(event)
    \/ \E engine \in Engines : ActionLambda(engine)

SpecAction == Init /\ [][NextAction]_vars

(* a mapping with apiPath, parameters, actionGroup and httpMethod *)
WellFormed(event) ==
    /\ event.t = "dict"
    /\ {"apiPath", "parameters", "actionGroup", "httpMethod"} \subseteq DOMAIN event.v

(* whether processing the event raises: no first parameter with a value,   *)
(* or the query engine fails on /uc2                                       *)
ProcessingRaises(event, engine) ==
    \/ event.v.parameters.v = <<>>
    \/ ~Has(event.v.parameters.v[1].v, "value")
    \/ /\ event.v.apiPath.v = UC2_PATH
       /\ engine.raised \/ ~Has(engine.value.metadata, "sql_query")

BodyOfResponse(result) ==
    result.v.response.v.responseBody.v["application/json"].v.body

(* "Source: ... Returned information: ..." *)
HasBodyForm(body) ==
    \E i, j \in DOMAIN body :
        /\ MatchesAt(body, i, SOURCE_LABEL)
        /\ i + Len(SOURCE_LABEL) <= j
        /\ MatchesAt(body, j, RETURNED_LABEL)

(* C30: for every well-formed action event, the action lambda returns      *)
(* {messageVersion: "1.0", response: {...}} whose httpStatusCode is 200    *)
(* for /uc1, for /uc2 when the query engine succeeds and for an unknown    *)
(* path (with the source "Not Found"), and 500 only when processing        *)
(* raised, and whose body has the form "Source: ... Returned               *)
(* information: ...".                                                      *)
C30_Dispatch ==
    (action_response.done /\ WellFormed(action_event)) =>
        LET result == action_response.outcome.value
        IN  /\ result.t = "dict"
            /\ Has(result.v, "messageVersion")
            /\ result.v.messageVersion = "1.0"
            /\ Has(result.v, "response")
            /\ result.v.response.v.httpStatusCode =
                   IF ProcessingRaises(action_event, action_response.engine)
                   THEN 500 ELSE 200
            /\ HasBodyForm(BodyOfResponse(result))
            /\ (/\ ~ProcessingRaises(action_event, action_response.engine)
                /\ action_event.v.apiPath.v \notin {UC1_PATH, UC2_PATH})
                   => Contains(BodyOfResponse(result), SOURCE_LABEL \o NOT_FOUND)

=============================================================================
